---- MODULE Spec2Model ----
(***************************************************************************)
(* Healthcare redaction engine: the pattern catalog, the cipher utility,   *)
(* the format detector and the redaction engine, as a state machine.       *)
(*                                                                         *)
(* A JavaScript string is a sequence of one-character strings; an index is *)
(* 0-based as in the source (the character at index i of s is s[i+1]).     *)
(***************************************************************************)
EXTENDS Integers, Sequences, FiniteSets, TLC

\* ------------------------------------------------------------------------
\* Characters and character classes of the regular expressions
\* ------------------------------------------------------------------------

LowerSeq == <<"a","b","c","d","e","f","g","h","i","j","k","l","m","n","o","p","q","r","s","t","u","v","w","x","y","z">>

UpperSeq == <<"A","B","C","D","E","F","G","H","I","J","K","L","M","N","O","P","Q","R","S","T","U","V","W","X","Y","Z">>

Lower == {LowerSeq[k] : k \in 1..Len(LowerSeq)}

Upper == {UpperSeq[k] : k \in 1..Len(UpperSeq)}

\* \d
Digit == {"0","1","2","3","4","5","6","7","8","9"}

\* \s (the white space of the modelled character set)
Space == {" ", "\t", "\n", "\r", "\f"}

\* \w, the word characters that decide \b
WordChar == Lower \cup Upper \cup Digit \cup {"_"}

\* The other letter of the same letter, for the i flag's canonicalisation.
SwapCase == [c \in Lower \cup Upper |->
               IF c \in Lower
               THEN UpperSeq[CHOOSE k \in 1..Len(LowerSeq) : LowerSeq[k] = c]
               ELSE LowerSeq[CHOOSE k \in 1..Len(UpperSeq) : UpperSeq[k] = c]]

\* ------------------------------------------------------------------------
\* Regular expressions: syntax trees and the backtracking matcher
\* ------------------------------------------------------------------------

Cls(S) == [t |-> "cls", s |-> S, neg |-> FALSE]

NotCls(S) == [t |-> "cls", s |-> S, neg |-> TRUE]

Ch(c) == Cls({c})

Cat(xs) == [t |-> "seq", xs |-> xs]

Lit(w) == Cat([k \in 1..Len(w) |-> Ch(w[k])])

Alt(xs) == [t |-> "alt", xs |-> xs]

\* x{min,max}, greedy; max = -1 is "no upper limit"
Rep(x, min, max) == [t |-> "rep", x |-> x, min |-> min, max |-> max]

Opt(x) == Rep(x, 0, 1)

Star(x) == Rep(x, 0, -1)

Plus(x) == Rep(x, 1, -1)

\* \b
WB == [t |-> "wb"]

\* ^ and $ (no m flag)
BOS == [t |-> "bos"]

EOS == [t |-> "eos"]

\* A regular expression object: its syntax tree and its g and i flags.
RegExp(re, g, i) == [re |-> re, global |-> g, ignoreCase |-> i]

InClass(c, cls, ci) ==
  LET hit == \/ c \in cls.s
             \/ ci /\ c \in DOMAIN SwapCase /\ SwapCase[c] \in cls.s
  IN  IF cls.neg THEN ~hit ELSE hit

IsWordAt(s, i) == i >= 0 /\ i < Len(s) /\ s[i + 1] \in WordChar

\* Match the stack of expressions k against s from index i, trying the
\* alternatives in the order a backtracking matcher tries them (greedy
\* quantifiers take one more iteration first, alternations go left to
\* right).  The end index of the first success, or -1.
RECURSIVE MatchK(_, _, _, _)
MatchK(k, s, i, ci) ==
  IF k = <<>> THEN i
  ELSE
    LET x == Head(k)
        rest == Tail(k)
    IN  CASE x.t = "cls" ->
               IF i < Len(s) /\ InClass(s[i + 1], x, ci)
               THEN MatchK(rest, s, i + 1, ci) ELSE -1
          [] x.t = "wb" ->
               IF IsWordAt(s, i - 1) # IsWordAt(s, i)
               THEN MatchK(rest, s, i, ci) ELSE -1
          [] x.t = "bos" -> IF i = 0 THEN MatchK(rest, s, i, ci) ELSE -1
          [] x.t = "eos" -> IF i = Len(s) THEN MatchK(rest, s, i, ci) ELSE -1
          [] x.t = "seq" -> MatchK(x.xs \o rest, s, i, ci)
          [] x.t = "alt" ->
               IF x.xs = <<>> THEN -1
               ELSE LET r == MatchK(<<Head(x.xs)>> \o rest, s, i, ci)
                    IN  IF r # -1 THEN r
                        ELSE MatchK(<<Alt(Tail(x.xs))>> \o rest, s, i, ci)
          [] x.t = "chk" -> IF i = x.p THEN -1 ELSE MatchK(rest, s, i, ci)
          [] x.t = "rep" /\ x.x.t = "cls" ->
               \* a class repeated: the longest run allowed first, then
               \* one character fewer at a time
               LET fits(n) == \A j \in 1..n : InClass(s[i + j], x.x, ci)
                   lens == {n \in 0..(Len(s) - i) :
                              fits(n) /\ (x.max = -1 \/ n <= x.max)}
                   good == {n \in lens :
                              n >= x.min /\ MatchK(rest, s, i + n, ci) # -1}
               IN  IF good = {} THEN -1
                   ELSE LET n == CHOOSE m \in good : \A q \in good : q <= m
                        IN  MatchK(rest, s, i + n, ci)
          [] x.t = "rep" /\ x.x.t # "cls" ->
               LET more ==
                     IF x.max = 0 THEN -1
                     ELSE MatchK(<<x.x, [t |-> "chk", p |-> i],
                                   Rep(x.x,
                                       IF x.min > 0 THEN x.min - 1 ELSE 0,
                                       IF x.max > 0 THEN x.max - 1 ELSE x.max)>>
                                 \o rest, s, i, ci)
               IN  IF more # -1 THEN more
                   ELSE IF x.min = 0 THEN MatchK(rest, s, i, ci) ELSE -1

NoMatch == [found |-> FALSE, index |-> 0, end |-> 0]

\* The end of the match of rx at each index of s from from on, -1 where
\* there is none.
MatchEnds(rx, s, from) ==
  [p \in from..Len(s) |-> MatchK(<<rx.re>>, s, p, rx.ignoreCase)]

\* The leftmost match among ends.
Leftmost(ends) ==
  LET hits == {p \in DOMAIN ends : ends[p] # -1}
  IN  IF hits = {} THEN NoMatch
      ELSE LET first == CHOOSE p \in hits : \A q \in hits : p <= q
           IN  [found |-> TRUE, index |-> first, end |-> ends[first]]

\* The leftmost index >= from at which rx matches s, with the match's end.
SearchFrom(rx, s, from) == Leftmost(MatchEnds(rx, s, from))

\* RegExp.prototype.exec: a g expression searches from its lastIndex,
\* any other from 0.
Exec(rx, s, lastIndex) ==
  SearchFrom(rx, s, IF rx.global THEN lastIndex ELSE 0)

\* RegExp.prototype.test of an expression without the g flag
Test(re, s) == SearchFrom(RegExp(re, FALSE, FALSE), s, 0).found

\* The characters of s at [from, to)
Substring(s, from, to) == SubSeq(s, from + 1, to)

\* ------------------------------------------------------------------------
\* The pattern catalog
\* ------------------------------------------------------------------------

D == Cls(Digit)

\* [A-Z0-9]
AlNumUp == Cls(Upper \cup Digit)

\* [\s:]*
SpColon == Star(Cls(Space \cup {":"}))

\* [\s#:]*
SpHashColon == Star(Cls(Space \cup {"#", ":"}))

\* [\s-]?
OptSpDash == Opt(Cls(Space \cup {"-"}))

\* [-.\s]?
OptSep == Opt(Cls(Space \cup {"-", "."}))

\* [/-]
SlashDash == Cls({"/", "-"})

\* A PHIPattern object.  id stands for the object's identity (two patterns
\* may carry the same name); the other fields are the interface's.
PHIPattern(name, rx, category, severity, replacement) ==
  [id |-> name, name |-> name, regex |-> rx, category |-> category,
   severity |-> severity, replacement |-> replacement]

SSN_RE ==
  Cat(<<WB, Rep(D, 3, 3), Opt(Ch("-")), Rep(D, 2, 2), Opt(Ch("-")),
        Rep(D, 4, 4), WB>>)

MRN_RE ==
  Cat(<<WB,
        Alt(<<Lit(<<"M","R","N">>), Lit(<<"m","r","n">>),
              Cat(<<Lit(<<"m","e","d","i","c","a","l">>), OptSpDash, Lit(<<"r","e","c","o","r","d">>), OptSpDash,
                    Alt(<<Lit(<<"n","u","m","b","e","r">>), Ch("#"), Lit(<<"n","u","m">>)>>)>>)>>),
        SpColon, Rep(D, 6, 12), WB>>)

PATIENT_ID_RE ==
  Cat(<<WB,
        Alt(<<Cat(<<Lit(<<"p","a","t","i","e","n","t">>), OptSpDash, Lit(<<"i","d">>)>>), Lit(<<"p","i","d">>),
              Cat(<<Lit(<<"p","t">>), OptSpDash, Lit(<<"i","d">>)>>)>>),
        SpColon, Rep(AlNumUp, 6, 12), WB>>)

PHONE_RE ==
  Cat(<<WB, Opt(Cat(<<Opt(Ch("+")), Ch("1"), OptSep>>)),
        Opt(Ch("(")), Rep(D, 3, 3), Opt(Ch(")")), OptSep,
        Rep(D, 3, 3), OptSep, Rep(D, 4, 4), WB>>)

EMAIL_RE ==
  Cat(<<WB, Plus(Cls(Upper \cup Lower \cup Digit \cup {".", "_", "%", "+", "-"})),
        Ch("@"), Plus(Cls(Upper \cup Lower \cup Digit \cup {".", "-"})),
        Ch("."), Rep(Cls(Upper \cup Lower \cup {"|"}), 2, -1), WB>>)

\* [A-Z][a-z]+
CapWord == Cat(<<Cls(Upper), Plus(Cls(Lower))>>)

PERSON_NAME_RE ==
  Cat(<<WB,
        Alt(<<Lit(<<"p","a","t","i","e","n","t">>), Lit(<<"d","r">>), Lit(<<"d","o","c","t","o","r">>), Lit(<<"m","r">>),
              Lit(<<"m","r","s">>), Lit(<<"m","s">>)>>),
        Cls(Space \cup {"."}), CapWord, Plus(Cls(Space)), CapWord, WB>>)

INSURANCE_ID_RE ==
  Cat(<<WB,
        Alt(<<Cat(<<Lit(<<"i","n","s","u","r","a","n","c","e">>), OptSpDash, Lit(<<"i","d">>)>>),
              Cat(<<Lit(<<"m","e","m","b","e","r">>), OptSpDash, Lit(<<"i","d">>)>>),
              Cat(<<Lit(<<"p","o","l","i","c","y">>), OptSpDash,
                    Alt(<<Lit(<<"n","u","m","b","e","r">>), Ch("#")>>)>>)>>),
        SpColon, Rep(AlNumUp, 6, 15), WB>>)

MEDICARE_RE ==
  Cat(<<WB, Rep(D, 3, 3), Ch("-"), Rep(D, 2, 2), Ch("-"), Rep(D, 4, 4),
        Cls(Upper), Opt(D), WB>>)

DEA_NUMBER_RE == Cat(<<WB, Rep(Cls(Upper), 2, 2), Rep(D, 7, 7), WB>>)

NPI_RE ==
  Cat(<<WB, Alt(<<Lit(<<"N","P","I">>), Lit(<<"n","p","i">>)>>), SpColon, Rep(D, 10, 10), WB>>)

DATE_RE ==
  Cat(<<WB,
        Alt(<<Cat(<<Rep(D, 1, 2), SlashDash, Rep(D, 1, 2), SlashDash,
                    Rep(D, 4, 4)>>),
              Cat(<<Rep(D, 4, 4), SlashDash, Rep(D, 1, 2), SlashDash,
                    Rep(D, 1, 2)>>),
              Cat(<<Alt(<<Lit(<<"J","a","n">>), Lit(<<"F","e","b">>), Lit(<<"M","a","r">>), Lit(<<"A","p","r">>),
                          Lit(<<"M","a","y">>), Lit(<<"J","u","n">>), Lit(<<"J","u","l">>), Lit(<<"A","u","g">>),
                          Lit(<<"S","e","p">>), Lit(<<"O","c","t">>), Lit(<<"N","o","v">>), Lit(<<"D","e","c">>)>>),
                    Star(Cls(Lower)), Plus(Cls(Space)), Rep(D, 1, 2),
                    Opt(Ch(",")), Plus(Cls(Space)), Rep(D, 4, 4)>>)>>),
        WB>>)

ADDRESS_RE ==
  Cat(<<WB, Plus(D), Plus(Cls(Space)),
        Plus(Cls(Upper \cup Lower \cup Space)),
        Alt(<<Lit(<<"S","t","r","e","e","t">>), Lit(<<"S","t">>), Lit(<<"A","v","e","n","u","e">>), Lit(<<"A","v","e">>),
              Lit(<<"R","o","a","d">>), Lit(<<"R","d">>), Lit(<<"D","r","i","v","e">>), Lit(<<"D","r">>),
              Lit(<<"L","a","n","e">>), Lit(<<"L","n">>), Lit(<<"B","o","u","l","e","v","a","r","d">>), Lit(<<"B","l","v","d">>),
              Lit(<<"W","a","y">>), Lit(<<"C","o","u","r","t">>), Lit(<<"C","t">>)>>),
        WB>>)

ZIP_CODE_RE ==
  Cat(<<WB, Rep(D, 5, 5), Opt(Cat(<<Ch("-"), Rep(D, 4, 4)>>)), WB>>)

PRESCRIPTION_NUMBER_RE ==
  Cat(<<WB, Alt(<<Lit(<<"r","x">>), Lit(<<"p","r","e","s","c","r","i","p","t","i","o","n">>), Lit(<<"s","c","r","i","p","t">>)>>),
        SpHashColon, Rep(AlNumUp, 6, 12), WB>>)

LAB_ID_RE ==
  Cat(<<WB,
        Alt(<<Cat(<<Lit(<<"l","a","b">>), OptSpDash, Lit(<<"i","d">>)>>),
              Cat(<<Lit(<<"s","p","e","c","i","m","e","n">>), OptSpDash, Lit(<<"i","d">>)>>),
              Cat(<<Lit(<<"t","e","s","t">>), OptSpDash, Lit(<<"i","d">>)>>)>>),
        SpColon, Rep(AlNumUp, 6, 15), WB>>)

ACCOUNT_NUMBER_RE ==
  Cat(<<WB, Alt(<<Lit(<<"a","c","c","o","u","n","t">>), Lit(<<"a","c","c","t">>)>>),
        SpHashColon, Rep(AlNumUp, 6, 15), WB>>)

OptDashSp == Opt(Cls(Space \cup {"-"}))

CREDIT_CARD_RE ==
  Cat(<<WB, Rep(D, 4, 4), OptDashSp, Rep(D, 4, 4), OptDashSp,
        Rep(D, 4, 4), OptDashSp, Rep(D, 4, 4), WB>>)

IP_ADDRESS_RE ==
  Cat(<<WB, Rep(Cat(<<Rep(D, 1, 3), Ch(".")>>), 3, 3), Rep(D, 1, 3), WB>>)

URL_RE ==
  Cat(<<Lit(<<"h","t","t","p">>), Opt(Ch("s")), Lit(<<":","/","/">>), Plus(NotCls(Space))>>)

\* [A-HJ-NPR-Z0-9]
VinChar == Cls((Upper \ {"I", "O", "Q"}) \cup Digit)

VIN_RE == Cat(<<WB, Rep(VinChar, 17, 17), WB>>)

LICENSE_NUMBER_RE ==
  Cat(<<WB, Alt(<<Lit(<<"l","i","c","e","n","s","e">>), Lit(<<"p","e","r","m","i","t">>)>>),
        SpHashColon, Rep(AlNumUp, 6, 12), WB>>)

PHARMACY_ID_RE ==
  Cat(<<WB, Alt(<<Lit(<<"p","h","a","r","m","a","c","y">>), Lit(<<"p","h","a","r","m">>)>>), OptSpDash,
        Alt(<<Lit(<<"i","d">>), Lit(<<"n","u","m","b","e","r">>)>>),
        SpColon, Rep(AlNumUp, 6, 12), WB>>)

PHI_PATTERNS ==
  << PHIPattern("SSN", RegExp(SSN_RE, TRUE, FALSE),
                "DIRECT_IDENTIFIER", "HIGH", <<"X","X","X","-","X","X","-","X","X","X","X">>),
     PHIPattern("MRN", RegExp(MRN_RE, TRUE, TRUE),
                "HEALTHCARE_ID", "HIGH", <<"M","R","N",":"," ","[","R","E","D","A","C","T","E","D","]">>),
     PHIPattern("PATIENT_ID", RegExp(PATIENT_ID_RE, TRUE, TRUE),
                "HEALTHCARE_ID", "HIGH", <<"P","A","T","I","E","N","T","_","I","D",":"," ","[","R","E","D","A","C","T","E","D","]">>),
     PHIPattern("PHONE", RegExp(PHONE_RE, TRUE, FALSE),
                "CONTACT", "HIGH", <<"(","X","X","X",")"," ","X","X","X","-","X","X","X","X">>),
     PHIPattern("EMAIL", RegExp(EMAIL_RE, TRUE, FALSE),
                "CONTACT", "HIGH", <<"[","E","M","A","I","L","_","R","E","D","A","C","T","E","D","]">>),
     PHIPattern("PERSON_NAME", RegExp(PERSON_NAME_RE, TRUE, TRUE),
                "DIRECT_IDENTIFIER", "HIGH", <<"[","N","A","M","E","_","R","E","D","A","C","T","E","D","]">>),
     PHIPattern("INSURANCE_ID", RegExp(INSURANCE_ID_RE, TRUE, TRUE),
                "HEALTHCARE_ID", "HIGH", <<"I","N","S","U","R","A","N","C","E","_","I","D",":"," ","[","R","E","D","A","C","T","E","D","]">>),
     PHIPattern("MEDICARE", RegExp(MEDICARE_RE, TRUE, FALSE),
                "HEALTHCARE_ID", "HIGH", <<"X","X","X","-","X","X","-","X","X","X","X","X">>),
     PHIPattern("DEA_NUMBER", RegExp(DEA_NUMBER_RE, TRUE, FALSE),
                "HEALTHCARE_ID", "HIGH", <<"[","D","E","A","_","R","E","D","A","C","T","E","D","]">>),
     PHIPattern("NPI", RegExp(NPI_RE, TRUE, TRUE),
                "HEALTHCARE_ID", "HIGH", <<"N","P","I",":"," ","[","R","E","D","A","C","T","E","D","]">>),
     PHIPattern("DATE", RegExp(DATE_RE, TRUE, TRUE),
                "TEMPORAL", "MEDIUM", <<"[","D","A","T","E","_","R","E","D","A","C","T","E","D","]">>),
     PHIPattern("ADDRESS", RegExp(ADDRESS_RE, TRUE, TRUE),
                "GEOGRAPHIC", "HIGH", <<"[","A","D","D","R","E","S","S","_","R","E","D","A","C","T","E","D","]">>),
     PHIPattern("ZIP_CODE", RegExp(ZIP_CODE_RE, TRUE, FALSE),
                "GEOGRAPHIC", "MEDIUM", <<"X","X","X","X","X">>),
     PHIPattern("PRESCRIPTION_NUMBER", RegExp(PRESCRIPTION_NUMBER_RE, TRUE, TRUE),
                "HEALTHCARE_ID", "HIGH", <<"R","X",":"," ","[","R","E","D","A","C","T","E","D","]">>),
     PHIPattern("LAB_ID", RegExp(LAB_ID_RE, TRUE, TRUE),
                "HEALTHCARE_ID", "HIGH", <<"L","A","B","_","I","D",":"," ","[","R","E","D","A","C","T","E","D","]">>),
     PHIPattern("ACCOUNT_NUMBER", RegExp(ACCOUNT_NUMBER_RE, TRUE, TRUE),
                "FINANCIAL", "HIGH", <<"A","C","C","O","U","N","T",":"," ","[","R","E","D","A","C","T","E","D","]">>),
     PHIPattern("CREDIT_CARD", RegExp(CREDIT_CARD_RE, TRUE, FALSE),
                "FINANCIAL", "HIGH", <<"X","X","X","X","-","X","X","X","X","-","X","X","X","X","-","X","X","X","X">>),
     PHIPattern("IP_ADDRESS", RegExp(IP_ADDRESS_RE, TRUE, FALSE),
                "DIRECT_IDENTIFIER", "MEDIUM", <<"X","X","X",".","X","X","X",".","X","X","X",".","X","X","X">>),
     PHIPattern("URL", RegExp(URL_RE, TRUE, TRUE),
                "DIRECT_IDENTIFIER", "MEDIUM", <<"[","U","R","L","_","R","E","D","A","C","T","E","D","]">>),
     PHIPattern("VIN", RegExp(VIN_RE, TRUE, FALSE),
                "DIRECT_IDENTIFIER", "MEDIUM", <<"[","V","I","N","_","R","E","D","A","C","T","E","D","]">>),
     PHIPattern("LICENSE_NUMBER", RegExp(LICENSE_NUMBER_RE, TRUE, TRUE),
                "DIRECT_IDENTIFIER", "MEDIUM", <<"L","I","C","E","N","S","E",":"," ","[","R","E","D","A","C","T","E","D","]">>),
     PHIPattern("PHARMACY_ID", RegExp(PHARMACY_ID_RE, TRUE, TRUE),
                "HEALTHCARE_ID", "HIGH", <<"P","H","A","R","M","A","C","Y","_","I","D",":"," ","[","R","E","D","A","C","T","E","D","]">>) >>

\* ------------------------------------------------------------------------
\* Optional values and RedactionOptions
\* ------------------------------------------------------------------------

\* An optional property: absent (undefined) or present with a value.
Absent == [def |-> FALSE, v |-> <<>>]

Some(v) == [def |-> TRUE, v |-> v]

\* RedactionOptions.  preserveFormat is "undefined", "true" or "false".
RedactionOptions(pf, mc, key, cats, custom) ==
  [preserveFormat |-> pf, maskCharacter |-> mc, encryptionKey |-> key,
   categories |-> cats, customPatterns |-> custom]

\* options = {}
NoOptions == RedactionOptions("undefined", Absent, Absent, Absent, Absent)

\* The truth value of an optional string: undefined and "" are falsy.
TruthyStr(o) == o.def /\ o.v # <<>>

\* ------------------------------------------------------------------------
\* The cipher utility
\* ------------------------------------------------------------------------

Hex == Digit \cup {"a","b","c","d","e","f","A","B","C","D","E","F"}

keyLength == 32

KeyChars == 64

ToLowerHex(c) == IF c \in Upper THEN SwapCase[c] ELSE c

\* Buffer.from(key, 'hex'): the bytes of the leading pairs of hexadecimal
\* digits; decoding stops at the first pair that is not one, and a trailing
\* single character is dropped.  A byte is its pair of lower-case digits.
HexDecode(key) ==
  LET pairs == Len(key) \div 2
      good(k) == key[2 * k - 1] \in Hex /\ key[2 * k] \in Hex
      n == IF \A k \in 1..pairs : good(k) THEN pairs
           ELSE (CHOOSE k \in 1..pairs : ~good(k) /\ \A j \in 1..(k - 1) : good(j)) - 1
  IN  [k \in 1..n |-> <<ToLowerHex(key[2 * k - 1]), ToLowerHex(key[2 * k])>>]

\* buffer.toString('hex'): two lower-case digits a byte
ToHexString(buffer) ==
  [k \in 1..(2 * Len(buffer)) |-> buffer[(k + 1) \div 2][2 - (k % 2)]]

\* generateKey(), where bytes is what randomBytes(this.keyLength) returns
generateKey(bytes) == ToHexString(bytes)

\* A validateKeyStrength that checks the length only.
validateKeyStrength_LengthOnly(key) == Len(key) = KeyChars

validateKeyStrength(key) ==
  IF Len(key) # KeyChars THEN FALSE
  ELSE Test(Cat(<<BOS, Rep(Cls(Hex), KeyChars, KeyChars), EOS>>), key)

\* A value that is a string of the program: plain text, or the envelope
\* JSON.stringify({iv, data}) that encrypt returns.  The ciphertext is
\* symbolic: it names the key bytes, the iv and the plaintext it encrypts.
Plain(text) == [kind |-> "text", text |-> text]

Envelope(iv, keyBytes, data) ==
  [kind |-> "envelope", iv |-> iv,
   data |-> [k |-> keyBytes, iv |-> iv, pt |-> data]]

Ok(v) == [ok |-> TRUE, v |-> v, error |-> ""]

Err(msg) == [ok |-> FALSE, v |-> Plain(<<>>), error |-> msg]

\* A string may hold a surrogate code unit without its pair.  Encoding a
\* string as utf8 writes U+FFFD for it, so the bytes encrypted, and the
\* string decoded from them, hold U+FFFD in its place.
LoneSurrogate == "<U+D83D>"

ReplacementChar == "<U+FFFD>"

Utf8(data) ==
  [k \in 1..Len(data) |->
     IF data[k] = LoneSurrogate THEN ReplacementChar ELSE data[k]]

\* encrypt(data, key) with the random iv drawn for the call.  createCipheriv
\* throws unless the key buffer holds keyLength bytes; the catch rethrows.
encrypt(data, key, iv) ==
  LET keyBuffer == HexDecode(key)
  IN  IF Len(keyBuffer) # keyLength
      THEN Err("Encryption failed: Invalid key length")
      ELSE Ok(Envelope(iv, keyBuffer, Utf8(data)))

\* decrypt(encryptedData, key).  badPad is the outcome of the final block's
\* padding check when the key is not the one that encrypted: CBC carries no
\* authentication, so the check may fail (the usual case) or pass and yield
\* garbage.
decrypt(encryptedData, key, badPad) ==
  LET keyBuffer == HexDecode(key)
  IN  IF encryptedData.kind # "envelope"
      THEN Err("Decryption failed: malformed envelope")
      ELSE IF Len(keyBuffer) # keyLength
      THEN Err("Decryption failed: Invalid key length")
      ELSE IF keyBuffer = encryptedData.data.k
      THEN Ok(Plain(encryptedData.data.pt))
      ELSE IF badPad THEN Err("Decryption failed: bad decrypt")
      ELSE Ok(Plain(<<"?">>))

\* maskChar.repeat(n)
Repeat(maskChar, n) ==
  IF n <= 0 THEN <<>>
  ELSE [k \in 1..(n * Len(maskChar)) |-> maskChar[((k - 1) % Len(maskChar)) + 1]]

MASK_SSN_RE ==
  Cat(<<BOS, Rep(D, 3, 3), Ch("-"), Rep(D, 2, 2), Ch("-"), Rep(D, 4, 4), EOS>>)

MASK_PHONE_RE ==
  Cat(<<BOS, Ch("("), Rep(D, 3, 3), Ch(")"), Cls(Space), Rep(D, 3, 3),
        Ch("-"), Rep(D, 4, 4), EOS>>)

MASK_ZIP_RE ==
  Cat(<<BOS, Rep(D, 5, 5), Opt(Cat(<<Ch("-"), Rep(D, 4, 4)>>)), EOS>>)

\* A maskData whose generic mask keeps the first two characters.
maskData_KeepsPrefix(data, maskCharacter, preserveLength) ==
  IF ~preserveLength THEN <<"[","R","E","D","A","C","T","E","D","]">>
  ELSE IF Test(MASK_SSN_RE, data) THEN <<"X","X","X","-","X","X","-","X","X","X","X">>
  ELSE IF Len(data) <= 2 THEN data
  ELSE <<data[1], data[2]>>
         \o Repeat(IF maskCharacter.def THEN maskCharacter.v ELSE <<"*">>,
                   Len(data) - 2)

\* A maskData without the shape rules.
maskData_GenericOnly(data, maskCharacter, preserveLength) ==
  IF ~preserveLength THEN <<"[","R","E","D","A","C","T","E","D","]">>
  ELSE IF Len(data) <= 2
  THEN Repeat(IF maskCharacter.def THEN maskCharacter.v ELSE <<"*">>, Len(data))
  ELSE <<data[1]>>
         \o Repeat(IF maskCharacter.def THEN maskCharacter.v ELSE <<"*">>,
                   Len(data) - 2)
         \o <<data[Len(data)]>>

\* maskData(data, maskChar = '*', preserveLength = true)
maskData(data, maskCharacter, preserveLength) ==
  LET maskChar == IF maskCharacter.def THEN maskCharacter.v ELSE <<"*">>
  IN  IF ~preserveLength THEN <<"[","R","E","D","A","C","T","E","D","]">>
      ELSE IF Test(MASK_SSN_RE, data) THEN <<"X","X","X","-","X","X","-","X","X","X","X">>
      ELSE IF Test(MASK_PHONE_RE, data) THEN <<"(","X","X","X",")"," ","X","X","X","-","X","X","X","X">>
      ELSE IF Test(MASK_ZIP_RE, data)
      THEN (IF Len(data) = 5 THEN <<"X","X","X","X","X">> ELSE <<"X","X","X","X","X","-","X","X","X","X">>)
      ELSE IF Len(data) <= 2 THEN Repeat(maskChar, Len(data))
      ELSE <<data[1]>> \o Repeat(maskChar, Len(data) - 2) \o <<data[Len(data)]>>

\* ------------------------------------------------------------------------
\* Custom patterns a caller may pass (options.customPatterns)
\* ------------------------------------------------------------------------

\* /\bEMP\d{3}\b/g
EMPLOYEE_ID_RE == Cat(<<WB, Lit(<<"E","M","P">>), Rep(D, 3, 3), WB>>)

\* /\bBADGE-\d{2}\b/g
BADGE_RE == Cat(<<WB, Lit(<<"B","A","D","G","E","-">>), Rep(D, 2, 2), WB>>)

CUSTOM_PATTERNS ==
  << PHIPattern("EMPLOYEE_ID", RegExp(EMPLOYEE_ID_RE, TRUE, FALSE),
                "CLINICAL", "LOW", <<"[","E","M","P","]">>),
     PHIPattern("BADGE", RegExp(BADGE_RE, TRUE, FALSE),
                "BIOMETRIC", "HIGH", <<"[","B","A","D","G","E","]">>) >>

\* /x*/g, which matches the empty string, with an empty replacement
EMPTY_MATCH_RE == Star(Ch("x"))

\* Custom patterns that try the while loop of a scan: one whose replacement
\* matches its own g expression, the same without the g flag, and one that
\* matches the empty string.
SELF_MATCHING == <<PHIPattern("SELF_G", RegExp(EMPLOYEE_ID_RE, TRUE, FALSE),
                              "CLINICAL", "LOW", <<"E","M","P","0","0","0">>)>>

SELF_MATCHING_NO_G == <<PHIPattern("SELF_NO_G", RegExp(EMPLOYEE_ID_RE, FALSE, FALSE),
                                   "CLINICAL", "LOW", <<"E","M","P","0","0","0">>)>>

EMPTY_MATCHING == <<PHIPattern("EMPTY", RegExp(EMPTY_MATCH_RE, TRUE, FALSE),
                               "CLINICAL", "LOW", <<>>)>>

\* /\d\d/ without the g flag, each pair of digits giving way to one digit
PAIR_NO_G == <<PHIPattern("PAIR_NO_G", RegExp(Cat(<<D, D>>), FALSE, FALSE),
                          "CLINICAL", "LOW", <<"7">>)>>

\* The identities of the patterns of ps.
Ids(ps) == [k \in 1..Len(ps) |-> ps[k].id]

\* ------------------------------------------------------------------------
\* The redaction engine: plain text
\* ------------------------------------------------------------------------

MaxIter == 6

\* A getApplicablePatterns that does not filter by category.
getApplicablePatterns_IgnoresCategories(patterns, options) ==
  [list |-> IF options.customPatterns.def
            THEN patterns \o options.customPatterns.v ELSE patterns,
   aliased |-> ~options.customPatterns.def]

\* getApplicablePatterns(options) on this.patterns.  aliased: the array
\* returned is this.patterns itself (neither filter nor spread made a copy).
getApplicablePatterns(patterns, options) ==
  LET filtering == options.categories.def /\ Len(options.categories.v) > 0
      includes(pattern) == \E k \in 1..Len(options.categories.v) :
                              options.categories.v[k] = pattern.category
      filtered == IF filtering THEN SelectSeq(patterns, includes) ELSE patterns
  IN  [list |-> IF options.customPatterns.def
                THEN filtered \o options.customPatterns.v ELSE filtered,
       aliased |-> ~filtering /\ ~options.customPatterns.def]

\* severityOrder
severityOrder(sev) ==
  CASE sev = "HIGH" -> 0 [] sev = "MEDIUM" -> 1 [] sev = "LOW" -> 2

\* The patterns of ps of one rank, in their order in ps.
OfRank(ps, r) ==
  SelectSeq(ps, LAMBDA pattern : severityOrder(pattern.severity) = r)

\* The patterns of ps in reverse order.
Reverse(ps) == [k \in 1..Len(ps) |-> ps[Len(ps) + 1 - k]]

\* A sort that is not stable: it reverses the patterns of equal severity.
SortBySeverity_NotStable(ps) ==
  Reverse(SelectSeq(ps, LAMBDA pattern : pattern.severity = "HIGH"))
    \o Reverse(SelectSeq(ps, LAMBDA pattern : pattern.severity = "MEDIUM"))
    \o Reverse(SelectSeq(ps, LAMBDA pattern : pattern.severity = "LOW"))

\* A sort that leaves the array as it is.
SortBySeverity_Unsorted(ps) == ps

\* Array.prototype.sort with the severity comparator (a stable sort): the
\* patterns of each rank in their order of the array, rank after rank.
SortBySeverity(ps) == OfRank(ps, 0) \o OfRank(ps, 1) \o OfRank(ps, 2)

\* A Match as redactText records it.
Match(pattern, index, length) ==
  [pattern |-> pattern.name, category |-> pattern.category,
   position |-> index, length |-> length, severity |-> pattern.severity]

\* The state of a scan: the text as rewritten so far and the matches
\* pushed so far.  The other fields are history: subs, the literal text
\* of each match and the text put in its place; by, the identity of the pattern of each match; passes,
\* the patterns whose loop has run, in order; diverged, a while loop that
\* did not end within MaxIter iterations; threw, the loop of a pattern
\* threw a TypeError.
ScanStart(text) ==
  [text |-> text, matches |-> <<>>, subs |-> <<>>, by |-> <<>>,
   passes |-> <<>>, diverged |-> FALSE, threw |-> FALSE]

\* A value of pattern.regex that is a RegExp.  Of any other value (a string
\* or an object of a JSON text) pattern.regex.lastIndex = 0 or
\* pattern.regex.exec(...) throws a TypeError.
IsRegExp(rx) == "re" \in DOMAIN rx

\* const replacement = options.preserveFormat ? maskData(...) : ...
Replacement(pattern, options, m0) ==
  IF options.preserveFormat = "true"
  THEN maskData(m0, options.maskCharacter, TRUE)
  ELSE pattern.replacement

\* The body of the while loop: the match of pattern at [index, index +
\* Len(m0)) is pushed and replacement is put in its place.
Substitute(pattern, st, index, m0, replacement) ==
  [st EXCEPT !.text = Substring(st.text, 0, index) \o replacement
                        \o Substring(st.text, index + Len(m0), Len(st.text)),
             !.matches = Append(@, Match(pattern, index, Len(m0))),
             !.subs = Append(@, [span |-> m0, replacement |-> replacement]),
             !.by = Append(@, pattern.id)]

RECURSIVE ScanLoop(_, _, _, _, _)
RECURSIVE ScanMatch(_, _, _, _, _)
RECURSIVE ScanNext(_, _, _, _, _, _, _)

\* The while loop of redactText for one pattern, from lastIndex.
ScanLoop(pattern, options, st, lastIndex, fuel) ==
  ScanMatch(pattern, options, st, Exec(pattern.regex, st.text, lastIndex), fuel)

\* The loop after its call of exec returned match.
ScanMatch(pattern, options, st, match, fuel) ==
  IF ~match.found THEN st
  ELSE IF fuel = 0 THEN [st EXCEPT !.diverged = TRUE]
  ELSE ScanNext(pattern, options, st, match.index,
                Substring(st.text, match.index, match.end),
                Replacement(pattern, options,
                            Substring(st.text, match.index, match.end)),
                fuel)

\* The loop's body, then the loop from the end of the replacement.
ScanNext(pattern, options, st, index, m0, replacement, fuel) ==
  ScanLoop(pattern, options, Substitute(pattern, st, index, m0, replacement),
           index + Len(replacement), fuel - 1)

\* The for loop of redactText over sortedPatterns[k..].
RECURSIVE ScanAll(_, _, _, _)
ScanAll(sortedPatterns, k, options, st) ==
  IF k > Len(sortedPatterns) \/ st.diverged \/ st.threw THEN st
  ELSE IF ~IsRegExp(sortedPatterns[k].regex) THEN [st EXCEPT !.threw = TRUE]
  ELSE ScanAll(sortedPatterns, k + 1, options,
               ScanLoop(sortedPatterns[k], options,
                        [st EXCEPT !.passes = Append(@, sortedPatterns[k].id)],
                        0, MaxIter))

\* What a call leaves behind besides its result.  sorted: this.patterns was
\* sorted in place; passes, by, subs: the history of the scans; encrypts:
\* the texts handed to encrypt, in order; leaves: the string leaves that
\* redactObject scanned, in order, each with what redactTextSync returned.
Effects(sorted, scan, encrypts) ==
  [sorted |-> sorted, passes |-> scan.passes, by |-> scan.by,
   subs |-> scan.subs, encrypts |-> encrypts, leaves |-> <<>>]

NoEffects == Effects(FALSE, ScanStart(<<>>), <<>>)

RedactionResult(original, redacted, matches, encrypted) ==
  [original |-> original, redacted |-> redacted, matches |-> matches,
   encrypted |-> encrypted]

NoResult == RedactionResult(<<>>, Plain(<<>>), <<>>, FALSE)

\* The outcome of a call: "returned" with its result, "threw" with the
\* error's message, or "diverged".
Returned(res, fx) == [status |-> "returned", result |-> res, error |-> "", fx |-> fx]

Threw(msg, fx) == [status |-> "threw", result |-> NoResult, error |-> msg, fx |-> fx]

Diverged(fx) == [status |-> "diverged", result |-> NoResult, error |-> "", fx |-> fx]

\* The outcome of a call whose return statement encrypts: enc is what
\* encrypt returned or threw.
Encrypted(original, matches, fx, enc) ==
  IF enc.ok THEN Returned(RedactionResult(original, enc.v, matches, TRUE), fx)
  ELSE Threw(enc.error, fx)

\* The return statement of redactText after the loops ended in scan.
ReturnText(text, options, scan, aliased, iv) ==
  IF scan.diverged THEN Diverged(Effects(aliased, scan, <<>>))
  ELSE IF scan.threw THEN Threw("TypeError", Effects(aliased, scan, <<>>))
  ELSE IF TruthyStr(options.encryptionKey)
  THEN Encrypted(text, scan.matches, Effects(aliased, scan, <<scan.text>>),
                 encrypt(scan.text, options.encryptionKey.v, iv))
  ELSE Returned(RedactionResult(text, Plain(scan.text), scan.matches, FALSE),
                Effects(aliased, scan, <<>>))

\* The loops of redactText over getApplicablePatterns' result.
ScanText(text, options, applicablePatterns, iv) ==
  ReturnText(text, options,
             ScanAll(SortBySeverity(applicablePatterns.list), 1, options,
                     ScanStart(text)),
             applicablePatterns.aliased, iv)

\* redactText(text, options) on an engine whose this.patterns is patterns;
\* iv is the iv encrypt draws if it is called.
redactText(patterns, text, options, iv) ==
  ScanText(text, options, getApplicablePatterns(patterns, options), iv)
\* ------------------------------------------------------------------------
\* JSON: values, JSON.parse and JSON.stringify(value, null, 2)
\*
\* The numbers of the modelled documents are integers and their strings
\* hold no \u escape.
\* ------------------------------------------------------------------------

JStr(s) == [t |-> "str", v |-> s]

JNum(n) == [t |-> "num", v |-> n]

JBool(b) == [t |-> "bool", v |-> b]

JNull == [t |-> "null", v |-> 0]

JArr(items) == [t |-> "arr", v |-> items]

\* An object: its own enumerable properties, in the order Object.entries
\* lists them.
JObj(entries) == [t |-> "obj", v |-> entries]

Entry(key, val) == [key |-> key, val |-> val]

\* The number a sequence of decimal digits denotes.
DigitValue(c) ==
  CASE c = "0" -> 0 [] c = "1" -> 1 [] c = "2" -> 2 [] c = "3" -> 3
    [] c = "4" -> 4 [] c = "5" -> 5 [] c = "6" -> 6 [] c = "7" -> 7
    [] c = "8" -> 8 [] c = "9" -> 9

RECURSIVE DigitsToNat(_)
DigitsToNat(ds) ==
  IF ds = <<>> THEN 0
  ELSE 10 * DigitsToNat(SubSeq(ds, 1, Len(ds) - 1)) + DigitValue(ds[Len(ds)])

DigitChars == <<"0","1","2","3","4","5","6","7","8","9">>

RECURSIVE NatToDigits(_)
NatToDigits(n) ==
  IF n < 10 THEN <<DigitChars[n + 1]>>
  ELSE NatToDigits(n \div 10) \o <<DigitChars[(n % 10) + 1]>>

\* A property key that is an array index ("0", "7", "12"): such keys are
\* listed first, in ascending order.
IsArrayIndex(key) ==
  /\ key # <<>>
  /\ Len(key) <= 9
  /\ \A k \in 1..Len(key) : key[k] \in Digit
  /\ (key[1] = "0" => Len(key) = 1)

\* Defining own property key of an object: an existing property keeps its
\* place and takes the value; a new array index goes among the indices in
\* ascending order; any other new key goes last.
DefineProp(entries, key, val) ==
  IF \E k \in 1..Len(entries) : entries[k].key = key
  THEN [k \in 1..Len(entries) |->
          IF entries[k].key = key THEN Entry(key, val) ELSE entries[k]]
  ELSE IF IsArrayIndex(key)
  THEN LET before(e) == IsArrayIndex(e.key) /\ DigitsToNat(e.key) < DigitsToNat(key)
           after(e) == ~before(e)
       IN  SelectSeq(entries, before) \o <<Entry(key, val)>> \o SelectSeq(entries, after)
  ELSE Append(entries, Entry(key, val))

ParseFail == [ok |-> FALSE, v |-> JNull, pos |-> 0]

Parsed(v, pos) == [ok |-> TRUE, v |-> v, pos |-> pos]

\* The index of the first character at or after i that is not JSON white space.
SkipWs(s, i) ==
  IF i >= Len(s) THEN i
  ELSE CHOOSE j \in i..Len(s) :
         /\ j = Len(s) \/ s[j + 1] \notin {" ", "\t", "\n", "\r"}
         /\ \A q \in i..(j - 1) : s[q + 1] \in {" ", "\t", "\n", "\r"}

StartsWithAt(s, i, w) == i + Len(w) <= Len(s) /\ Substring(s, i, i + Len(w)) = w

\* The character an escape \c denotes ("" when \c is no escape of the model).
Unescape(c) ==
  CASE c = "\"" -> "\"" [] c = "\\" -> "\\" [] c = "/" -> "/"
    [] c = "n" -> "\n" [] c = "t" -> "\t" [] c = "r" -> "\r" [] c = "f" -> "\f"
    [] OTHER -> ""

\* The character at index k of s follows an odd run of backslashes: it is
\* the second character of an escape.
Escaped(s, k) ==
  LET run == CHOOSE r \in 0..k :
               /\ \A q \in 1..r : s[k - q + 1] = "\\"
               /\ (r = k \/ s[k - r] # "\\")
  IN  run % 2 = 1

\* The string literal whose opening quote is at index j - 1.
ParseStringBody(s, j) ==
  LET closes == {q \in j..(Len(s) - 1) : s[q + 1] = "\"" /\ ~Escaped(s, q)}
  IN  IF closes = {} THEN ParseFail
      ELSE LET close == CHOOSE q \in closes : \A r \in closes : q <= r
               intro(k) == s[k + 1] = "\\" /\ ~Escaped(s, k)
               bad == \E k \in j..(close - 1) :
                        \/ s[k + 1] \in {"\t", "\n", "\r", "\f"}
                        \/ Escaped(s, k) /\ Unescape(s[k + 1]) = ""
               kept == SelectSeq([k \in 1..(close - j) |-> j + k - 1],
                                 LAMBDA k : ~intro(k))
           IN  IF bad THEN ParseFail
               ELSE Parsed(JStr([n \in 1..Len(kept) |->
                                   IF Escaped(s, kept[n]) THEN Unescape(s[kept[n] + 1])
                                   ELSE s[kept[n] + 1]]),
                           close + 1)

\* The end of the run of digits from index j.
DigitsEnd(s, j) ==
  CHOOSE e \in j..Len(s) :
    /\ \A q \in j..(e - 1) : s[q + 1] \in Digit
    /\ (e = Len(s) \/ s[e + 1] \notin Digit)

ParseNumber(s, i) ==
  LET neg == s[i + 1] = "-"
      from == IF neg THEN i + 1 ELSE i
      to == DigitsEnd(s, from)
      ds == Substring(s, from, to)
  IN  IF ds = <<>> \/ (ds[1] = "0" /\ Len(ds) > 1) THEN ParseFail
      ELSE Parsed(JNum(IF neg THEN 0 - DigitsToNat(ds) ELSE DigitsToNat(ds)), to)

RECURSIVE ParseValue(_, _)
RECURSIVE ParseElements(_, _, _)
RECURSIVE ParseMembers(_, _, _)

ParseValue(s, i0) ==
  LET i == SkipWs(s, i0)
  IN  IF i >= Len(s) THEN ParseFail
      ELSE LET c == s[i + 1]
           IN  CASE c = "{" ->
                      (LET j == SkipWs(s, i + 1)
                       IN  IF j < Len(s) /\ s[j + 1] = "}"
                           THEN Parsed(JObj(<<>>), j + 1)
                           ELSE ParseMembers(s, j, <<>>))
                 [] c = "[" ->
                      (LET j == SkipWs(s, i + 1)
                       IN  IF j < Len(s) /\ s[j + 1] = "]"
                           THEN Parsed(JArr(<<>>), j + 1)
                           ELSE ParseElements(s, j, <<>>))
                 [] c = "\"" -> ParseStringBody(s, i + 1)
                 [] c \in Digit \cup {"-"} -> ParseNumber(s, i)
                 [] OTHER ->
                      IF StartsWithAt(s, i, <<"t","r","u","e">>) THEN Parsed(JBool(TRUE), i + 4)
                      ELSE IF StartsWithAt(s, i, <<"f","a","l","s","e">>) THEN Parsed(JBool(FALSE), i + 5)
                      ELSE IF StartsWithAt(s, i, <<"n","u","l","l">>) THEN Parsed(JNull, i + 4)
                      ELSE ParseFail

\* The elements of an array from index i, then "]".
ParseElements(s, i, acc) ==
  LET e == ParseValue(s, i)
  IN  IF ~e.ok THEN ParseFail
      ELSE LET j == SkipWs(s, e.pos)
           IN  IF j >= Len(s) THEN ParseFail
               ELSE IF s[j + 1] = "]" THEN Parsed(JArr(Append(acc, e.v)), j + 1)
               ELSE IF s[j + 1] = "," THEN ParseElements(s, j + 1, Append(acc, e.v))
               ELSE ParseFail

\* The members of an object from index i, then "}".
ParseMembers(s, i0, acc) ==
  LET i == SkipWs(s, i0)
  IN  IF i >= Len(s) \/ s[i + 1] # "\"" THEN ParseFail
      ELSE LET key == ParseStringBody(s, i + 1)
           IN  IF ~key.ok THEN ParseFail
               ELSE LET c == SkipWs(s, key.pos)
                    IN  IF c >= Len(s) \/ s[c + 1] # ":" THEN ParseFail
                        ELSE LET val == ParseValue(s, c + 1)
                             IN  IF ~val.ok THEN ParseFail
                                 ELSE LET j == SkipWs(s, val.pos)
                                          props == DefineProp(acc, key.v.v, val.v)
                                      IN  IF j >= Len(s) THEN ParseFail
                                          ELSE IF s[j + 1] = "}" THEN Parsed(JObj(props), j + 1)
                                          ELSE IF s[j + 1] = "," THEN ParseMembers(s, j + 1, props)
                                          ELSE ParseFail

\* JSON.parse(text): ok is FALSE where it throws a SyntaxError.
JSONparse(text) ==
  LET r == ParseValue(text, 0)
  IN  IF r.ok /\ SkipWs(text, r.pos) = Len(text) THEN r ELSE ParseFail

\* The concatenation of the sequences of xs.
RECURSIVE Flatten(_)
Flatten(xs) ==
  IF xs = <<>> THEN <<>>
  ELSE IF Len(xs) = 1 THEN xs[1]
  ELSE LET h == Len(xs) \div 2
       IN  Flatten(SubSeq(xs, 1, h)) \o Flatten(SubSeq(xs, h + 1, Len(xs)))

\* The characters of a string as JSON.stringify quotes them.
EscapeChars(s) ==
  Flatten([k \in 1..Len(s) |->
             CASE s[k] = "\"" -> <<"\\", "\"">> [] s[k] = "\\" -> <<"\\", "\\">>
               [] s[k] = "\n" -> <<"\\", "n">> [] s[k] = "\t" -> <<"\\", "t">>
               [] s[k] = "\r" -> <<"\\", "r">> [] s[k] = "\f" -> <<"\\", "f">>
               [] OTHER -> <<s[k]>>])

Quote(s) == <<"\"">> \o EscapeChars(s) \o <<"\"">>

\* xs[1] sep xs[2] sep ... xs[n]
RECURSIVE Join(_, _)
Join(xs, sep) ==
  IF xs = <<>> THEN <<>>
  ELSE IF Len(xs) = 1 THEN xs[1]
  ELSE xs[1] \o sep \o Join(Tail(xs), sep)

\* JSON.stringify(value, null, 2) at the indentation indent.
RECURSIVE Stringify(_, _)
Stringify(value, indent) ==
  LET inner == indent \o <<" ", " ">>
      sep == <<",", "\n">> \o inner
  IN  CASE value.t = "str" -> Quote(value.v)
        [] value.t = "num" ->
             (IF value.v < 0 THEN <<"-">> \o NatToDigits(0 - value.v)
              ELSE NatToDigits(value.v))
        [] value.t = "bool" -> (IF value.v THEN <<"t","r","u","e">> ELSE <<"f","a","l","s","e">>)
        [] value.t = "null" -> <<"n","u","l","l">>
        [] value.t = "arr" ->
             (IF value.v = <<>> THEN <<"[","]">>
              ELSE <<"[", "\n">> \o inner
                   \o Join([k \in 1..Len(value.v) |-> Stringify(value.v[k], inner)], sep)
                   \o <<"\n">> \o indent \o <<"]">>)
        [] value.t = "obj" ->
             (IF value.v = <<>> THEN <<"{","}">>
              ELSE <<"{", "\n">> \o inner
                   \o Join([k \in 1..Len(value.v) |->
                              Quote(value.v[k].key) \o <<":", " ">>
                                \o Stringify(value.v[k].val, inner)], sep)
                   \o <<"\n">> \o indent \o <<"}">>)

JSONstringify(value) == Stringify(value, <<>>)

\* ------------------------------------------------------------------------
\* XML: the xml2js parser and builder with their default options
\*
\* The modelled documents are an optional <?xml ...?> declaration and one
\* root element; elements carry attributes in double quotes, text and
\* child elements; they hold no entity reference, comment or CDATA, so
\* "&" is taken as malformed.  The parser's objects have no prototype:
\* every element and attribute name is an own property.
\* ------------------------------------------------------------------------

NameStart == Lower \cup Upper \cup {"_"}

NameChar == NameStart \cup Digit \cup {"-", "."}

\* The first index at or after i whose character is not in cs (Len(s) if none).
RunEnd(s, i, cs) ==
  IF i >= Len(s) THEN i
  ELSE CHOOSE e \in i..Len(s) :
         /\ \A q \in i..(e - 1) : s[q + 1] \in cs
         /\ (e = Len(s) \/ s[e + 1] \notin cs)

\* The first index at or after i whose character is in cs (Len(s) if none).
FindChar(s, i, cs) == RunEnd(s, i, {s[k] : k \in 1..Len(s)} \ cs)

\* /^\s*$/
IsBlank(text) == \A k \in 1..Len(text) : text[k] \in Space

\* parent[nodeName] = [obj], or parent[nodeName].push(obj)
AttachChild(entries, nodeName, obj) ==
  IF \E k \in 1..Len(entries) : entries[k].key = nodeName
  THEN [k \in 1..Len(entries) |->
          IF entries[k].key = nodeName
          THEN Entry(nodeName, JArr(Append(entries[k].val.v, obj)))
          ELSE entries[k]]
  ELSE Append(entries, Entry(nodeName, JArr(<<obj>>)))

\* The value of an element at its closing tag: its text under "_" unless
\* blank, the text alone when it has nothing else, '' when it is empty.
CloseElement(text, attrs, children) ==
  LET withText == IF IsBlank(text) THEN <<>> ELSE <<Entry(<<"_">>, JStr(text))>>
      withAttrs == IF attrs = <<>> THEN <<>> ELSE <<Entry(<<"$">>, JObj(attrs))>>
      entries == withText \o withAttrs \o children
  IN  IF entries = <<>> THEN JStr(<<>>)
      ELSE IF Len(entries) = 1 /\ ~IsBlank(text) THEN JStr(text)
      ELSE JObj(entries)

XmlFail == [ok |-> FALSE, name |-> <<>>, v |-> JNull, pos |-> 0]

XmlNode(name, v, pos) == [ok |-> TRUE, name |-> name, v |-> v, pos |-> pos]

\* The attributes from index i up to ">" or "/>": [ok, attrs, pos].
RECURSIVE ParseAttrs(_, _, _)
ParseAttrs(s, i0, acc) ==
  LET i == RunEnd(s, i0, Space)
  IN  IF i >= Len(s) THEN [ok |-> FALSE, attrs |-> <<>>, pos |-> 0]
      ELSE IF s[i + 1] \in {">", "/"} THEN [ok |-> TRUE, attrs |-> acc, pos |-> i]
      ELSE LET e == RunEnd(s, i, NameChar)
               name == Substring(s, i, e)
               close == FindChar(s, e + 2, {"\""})
               value == Substring(s, e + 2, close)
           IN  IF \/ name = <<>> \/ name[1] \notin NameStart \/ i = i0
                  \/ e + 2 > Len(s) \/ s[e + 1] # "=" \/ s[e + 2] # "\""
                  \/ close >= Len(s)
                  \/ \E k \in 1..Len(value) : value[k] \in {"<", "&"}
                  \/ \E k \in 1..Len(acc) : acc[k].key = name
               THEN [ok |-> FALSE, attrs |-> <<>>, pos |-> 0]
               ELSE ParseAttrs(s, close + 1, Append(acc, Entry(name, JStr(value))))

RECURSIVE ParseElement(_, _)
RECURSIVE ParseContent(_, _, _, _, _, _)

\* The element whose "<" is at index i.
ParseElement(s, i) ==
  LET e == RunEnd(s, i + 1, NameChar)
      name == Substring(s, i + 1, e)
      attrs == ParseAttrs(s, e, <<>>)
  IN  IF name = <<>> \/ name[1] \notin NameStart \/ ~attrs.ok THEN XmlFail
      ELSE IF StartsWithAt(s, attrs.pos, <<"/",">">>)
      THEN XmlNode(name, CloseElement(<<>>, attrs.attrs, <<>>), attrs.pos + 2)
      ELSE IF s[attrs.pos + 1] = ">"
      THEN ParseContent(s, attrs.pos + 1, name, attrs.attrs, <<>>, <<>>)
      ELSE XmlFail

\* The content of element name from index i up to its closing tag.
ParseContent(s, i, name, attrs, text, children) ==
  IF i >= Len(s) THEN XmlFail
  ELSE IF StartsWithAt(s, i, <<"<","/">>)
  THEN LET e == RunEnd(s, i + 2, NameChar)
           close == RunEnd(s, e, Space)
       IN  IF Substring(s, i + 2, e) = name /\ close < Len(s) /\ s[close + 1] = ">"
           THEN XmlNode(name, CloseElement(text, attrs, children), close + 1)
           ELSE XmlFail
  ELSE IF s[i + 1] = "<"
  THEN LET child == ParseElement(s, i)
       IN  IF ~child.ok THEN XmlFail
           ELSE ParseContent(s, child.pos, name, attrs, text,
                             AttachChild(children, child.name, child.v))
  ELSE LET e == FindChar(s, i, {"<"})
           chunk == Substring(s, i, e)
       IN  IF \E k \in 1..Len(chunk) : chunk[k] = "&" THEN XmlFail
           ELSE ParseContent(s, e, name, attrs, text \o chunk, children)

\* parser.parseStringPromise(xmlString): ok is FALSE where it rejects.
XMLparse(xmlString) ==
  LET i0 == RunEnd(xmlString, 0, Space)
      decl == StartsWithAt(xmlString, i0, <<"<","?","x","m","l">>)
      declEnd == FindChar(xmlString, i0, {">"})
      i == IF decl THEN RunEnd(xmlString, declEnd + 1, Space) ELSE i0
      root == IF i < Len(xmlString) /\ xmlString[i + 1] = "<"
              THEN ParseElement(xmlString, i) ELSE XmlFail
  IN  IF decl /\ (declEnd >= Len(xmlString) \/ xmlString[declEnd] # "?") THEN ParseFail
      ELSE IF root.ok /\ RunEnd(xmlString, root.pos, Space) = Len(xmlString)
      THEN Parsed(JObj(<<Entry(root.name, root.v)>>), root.pos)
      ELSE ParseFail

\* An element as the builder holds it: its name, its attributes and its
\* child nodes (a text node or an element).
XText(value) == [node |-> "text", value |-> value]

XElem(name, attrs, children) ==
  [node |-> "element", name |-> name, attrs |-> attrs, children |-> children]

\* element.ele(key, entry) of a string entry: an element with a text node
StringEle(key, entry) == XElem(key, <<>>, <<XText(entry)>>)

RECURSIVE Render(_, _)
RECURSIVE RenderKeys(_, _, _)

\* render(element, obj) of the builder: the element with the attributes
\* and the children that obj gives it.
Render(element, obj) ==
  IF obj.t = "obj" THEN RenderKeys(element, obj.v, 1)
  ELSE IF obj.t = "str"
  THEN [element EXCEPT !.children = Append(@, XText(obj.v))]
  ELSE element

\* for (key in obj), from the k-th own property
RenderKeys(element, entries, k) ==
  IF k > Len(entries) THEN element
  ELSE LET key == entries[k].key
           child == entries[k].val
           next ==
             IF key = <<"$">>
             THEN (IF child.t = "obj"
                   THEN [element EXCEPT !.attrs = @ \o child.v] ELSE element)
             ELSE IF key = <<"_">>
             THEN [element EXCEPT !.children = Append(@, XText(child.v))]
             ELSE IF child.t = "arr"
             THEN [element EXCEPT !.children = @ \o
                     [n \in 1..Len(child.v) |->
                        IF child.v[n].t = "str" THEN StringEle(key, child.v[n].v)
                        ELSE Render(XElem(key, <<>>, <<>>), child.v[n])]]
             ELSE IF child.t = "obj"
             THEN [element EXCEPT !.children = Append(@, Render(XElem(key, <<>>, <<>>), child))]
             ELSE [element EXCEPT !.children = Append(@, StringEle(key, child.v))]
       IN  RenderKeys(next, entries, k + 1)

Spaces(n) == [k \in 1..(2 * n) |-> " "]

\* The writer of the builder (pretty, two spaces) for a node at a level.
RECURSIVE WriteNode(_, _)
WriteNode(n, level) ==
  IF n.node = "text" THEN Spaces(level) \o n.value \o <<"\n">>
  ELSE
    LET open == Spaces(level) \o <<"<">> \o n.name
                  \o Flatten([k \in 1..Len(n.attrs) |->
                                <<" ">> \o n.attrs[k].key \o <<"=", "\"">>
                                  \o n.attrs[k].val.v \o <<"\"">>])
        close == <<"<", "/">> \o n.name \o <<">", "\n">>
    IN  IF \A k \in 1..Len(n.children) :
             n.children[k].node = "text" /\ n.children[k].value = <<>>
        THEN open \o <<"/", ">", "\n">>
        ELSE IF Len(n.children) = 1 /\ n.children[1].node = "text"
        THEN open \o <<">">> \o n.children[1].value \o close
        ELSE open \o <<">", "\n">>
               \o Flatten([k \in 1..Len(n.children) |-> WriteNode(n.children[k], level + 1)])
               \o Spaces(level) \o close

XmlDecl == <<"<","?","x","m","l"," ","v","e","r","s","i","o","n","=","\"","1",".","0","\""," ","e","n","c","o","d","i","n","g","=","\"","U","T","F","-","8","\""," ","s","t","a","n","d","a","l","o","n","e","=","\"","y","e","s","\"","?",">">>

\* builder.buildObject(rootObj): the only key of rootObj names the root
\* element; failing that the root element is named root.
XMLbuild(rootObj) ==
  LET single == rootObj.t = "obj" /\ Len(rootObj.v) = 1
      rootName == IF single THEN rootObj.v[1].key ELSE <<"r","o","o","t">>
      obj == IF single THEN rootObj.v[1].val ELSE rootObj
      text == XmlDecl \o <<"\n">> \o WriteNode(Render(XElem(rootName, <<>>, <<>>), obj), 0)
  IN  SubSeq(text, 1, Len(text) - 1)

\* ------------------------------------------------------------------------
\* The redaction engine: string leaves and trees
\* ------------------------------------------------------------------------

RECURSIVE ScanLoopSync(_, _, _, _, _)
RECURSIVE ScanMatchSync(_, _, _, _, _)
RECURSIVE ScanNextSync(_, _, _, _, _, _, _)

\* The while loop of redactTextSync for one pattern, from lastIndex.
ScanLoopSync(pattern, options, st, lastIndex, fuel) ==
  ScanMatchSync(pattern, options, st,
                Exec(pattern.regex, st.text, lastIndex), fuel)

\* The loop after its call of exec returned match.
ScanMatchSync(pattern, options, st, match, fuel) ==
  IF ~match.found THEN st
  ELSE IF fuel = 0 THEN [st EXCEPT !.diverged = TRUE]
  ELSE ScanNextSync(pattern, options, st, match.index,
                    Substring(st.text, match.index, match.end),
                    Replacement(pattern, options,
                                Substring(st.text, match.index, match.end)),
                    fuel)

\* The loop's body, then the loop from the end of the replacement.
ScanNextSync(pattern, options, st, index, m0, replacement, fuel) ==
  ScanLoopSync(pattern, options,
               Substitute(pattern, st, index, m0, replacement),
               index + Len(replacement), fuel - 1)

\* The for loop of redactTextSync over sortedPatterns[k..].
RECURSIVE ScanAllSync(_, _, _, _)
ScanAllSync(sortedPatterns, k, options, st) ==
  IF k > Len(sortedPatterns) \/ st.diverged \/ st.threw THEN st
  ELSE IF ~IsRegExp(sortedPatterns[k].regex) THEN [st EXCEPT !.threw = TRUE]
  ELSE ScanAllSync(sortedPatterns, k + 1, options,
                   ScanLoopSync(sortedPatterns[k], options,
                                [st EXCEPT !.passes = Append(@, sortedPatterns[k].id)],
                                0, MaxIter))

\* A redactTextSync that applies the patterns in the order of the array.
redactTextSync_Unsorted(patterns, text, options) ==
  ScanAllSync(getApplicablePatterns(patterns, options).list,
              1, options, ScanStart(text))

\* redactTextSync(text, options): the scan of one string; its text and
\* matches fields are the redacted and matches of the RedactionResult.
redactTextSync(patterns, text, options) ==
  ScanAllSync(SortBySeverity(getApplicablePatterns(patterns, options).list),
              1, options, ScanStart(text))

\* What redactObject returns, redacted and matches, with the history of
\* the scans of its leaves (leaves: the strings scanned, in order; threw:
\* the scan of a leaf threw, and redactObject with it).
Walk(redacted, matches, subs, by, passes, leaves, diverged, threw) ==
  [redacted |-> redacted, matches |-> matches, subs |-> subs, by |-> by,
   passes |-> passes, leaves |-> leaves, diverged |-> diverged,
   threw |-> threw]

NoWalk(redacted) == Walk(redacted, <<>>, <<>>, <<>>, <<>>, <<>>, FALSE, FALSE)

\* What redactObject returns for a string leaf whose scan ended in result.
LeafWalk(leaf, result) ==
  Walk(JStr(result.text), result.matches, result.subs, result.by,
       result.passes,
       <<[text |-> leaf, redacted |-> result.text, matches |-> result.matches]>>,
       result.diverged, result.threw)

\* redactedObject[key] = value on an ordinary object: the key __proto__ is
\* the accessor of Object.prototype, whose setter defines no own property.
SetProp(entries, key, val) ==
  IF key = <<"_","_","p","r","o","t","o","_","_">> THEN entries ELSE DefineProp(entries, key, val)

\* acc after the walk of an item: the item's redacted value pushed.
PushItem(acc, result) ==
  Walk(JArr(Append(acc.redacted.v, result.redacted)),
       acc.matches \o result.matches, acc.subs \o result.subs,
       acc.by \o result.by, acc.passes \o result.passes,
       acc.leaves \o result.leaves, acc.diverged \/ result.diverged,
       acc.threw \/ result.threw)

\* acc after the walk of the value of key: redactedObject[key] assigned.
AssignEntry(acc, key, result) ==
  Walk(JObj(SetProp(acc.redacted.v, key, result.redacted)),
       acc.matches \o result.matches, acc.subs \o result.subs,
       acc.by \o result.by, acc.passes \o result.passes,
       acc.leaves \o result.leaves, acc.diverged \/ result.diverged,
       acc.threw \/ result.threw)

RECURSIVE redactObject(_, _, _)
RECURSIVE redactItems(_, _, _, _, _)
RECURSIVE redactEntries(_, _, _, _, _)

\* redactObject(obj, options)
redactObject(patterns, obj, options) ==
  CASE obj.t = "str" ->
         LeafWalk(obj.v,
                  redactTextSync(patterns, obj.v,
                                 [options EXCEPT !.encryptionKey = Absent]))
    [] obj.t = "arr" -> redactItems(patterns, obj.v, 1, options, NoWalk(JArr(<<>>)))
    [] obj.t = "obj" -> redactEntries(patterns, obj.v, 1, options, NoWalk(JObj(<<>>)))
    [] OTHER -> NoWalk(obj)

\* for (const item of obj), from the k-th item
redactItems(patterns, items, k, options, acc) ==
  IF k > Len(items) \/ acc.diverged \/ acc.threw THEN acc
  ELSE redactItems(patterns, items, k + 1, options,
                   PushItem(acc, redactObject(patterns, items[k], options)))

\* for (const [key, value] of Object.entries(obj)), from the k-th entry
redactEntries(patterns, entries, k, options, acc) ==
  IF k > Len(entries) \/ acc.diverged \/ acc.threw THEN acc
  ELSE redactEntries(patterns, entries, k + 1, options,
                     AssignEntry(acc, entries[k].key,
                                 redactObject(patterns, entries[k].val, options)))

\* The effects of a walk of a tree followed by the calls of encrypt.
WalkEffects(patterns, options, walk, encrypts) ==
  [sorted |-> getApplicablePatterns(patterns, options).aliased /\ walk.leaves # <<>>,
   passes |-> walk.passes, by |-> walk.by, subs |-> walk.subs,
   encrypts |-> encrypts, leaves |-> walk.leaves]

\* The effects of fx followed by those of the call whose outcome is out.
After(fx, out) ==
  [out EXCEPT !.fx = [sorted |-> fx.sorted \/ out.fx.sorted,
                      passes |-> fx.passes \o out.fx.passes,
                      by |-> fx.by \o out.fx.by,
                      subs |-> fx.subs \o out.fx.subs,
                      encrypts |-> fx.encrypts \o out.fx.encrypts,
                      leaves |-> fx.leaves \o out.fx.leaves]]

\* The try block of redactJSON or redactXML ended by an exception, which
\* its catch block takes.
Caught(fx) == [status |-> "caught", result |-> NoResult, error |-> "", fx |-> fx]

\* The return statement of the try block when it encrypts: enc is what
\* encrypt returned or threw.
EncryptedTree(original, matches, fx, enc) ==
  IF enc.ok THEN Returned(RedactionResult(original, enc.v, matches, TRUE), fx)
  ELSE Caught(fx)

\* A return statement that encrypts the input in place of the redacted
\* string.
ReturnTree_EncryptsOriginal(patterns, input, options, walk, redactedString, iv) ==
  IF TruthyStr(options.encryptionKey)
  THEN EncryptedTree(input, walk.matches,
                     WalkEffects(patterns, options, walk, <<input>>),
                     encrypt(input, options.encryptionKey.v, iv))
  ELSE Returned(RedactionResult(input, Plain(redactedString), walk.matches, FALSE),
                WalkEffects(patterns, options, walk, <<>>))

\* The return statement of the try block.
ReturnTree(patterns, input, options, walk, redactedString, iv) ==
  IF walk.diverged THEN Diverged(WalkEffects(patterns, options, walk, <<>>))
  ELSE IF walk.threw THEN Caught(WalkEffects(patterns, options, walk, <<>>))
  ELSE IF TruthyStr(options.encryptionKey)
  THEN EncryptedTree(input, walk.matches,
                     WalkEffects(patterns, options, walk, <<redactedString>>),
                     encrypt(redactedString, options.encryptionKey.v, iv))
  ELSE Returned(RedactionResult(input, Plain(redactedString), walk.matches, FALSE),
                WalkEffects(patterns, options, walk, <<>>))

\* JSON.stringify(result.redacted, null, 2) or builder.buildObject(...)
Serialize(format, redacted) ==
  IF format = "JSON" THEN JSONstringify(redacted) ELSE XMLbuild(redacted)

\* The try block from the result of redactObject on.
TryWalk(patterns, input, options, walk, format, iv) ==
  ReturnTree(patterns, input, options, walk, Serialize(format, walk.redacted), iv)

\* The try block of redactJSON or redactXML from the parser's result on.
TryBlock(patterns, input, options, parsed, format, iv) ==
  IF ~parsed.ok THEN Caught(NoEffects)
  ELSE TryWalk(patterns, input, options,
               redactObject(patterns, parsed.v, options), format, iv)

\* A catch block that throws the exception again.
CatchText_Rethrows(patterns, input, options, attempt, iv, iv2) ==
  IF attempt.status = "caught"
  THEN Threw("parse error", attempt.fx)
  ELSE attempt

\* The catch block: redactText of the input.  iv2 is the iv its encrypt
\* draws when the try block has drawn iv.
CatchText(patterns, input, options, attempt, iv, iv2) ==
  IF attempt.status = "caught"
  THEN After(attempt.fx,
             redactText(patterns, input, options,
                        IF attempt.fx.encrypts = <<>> THEN iv ELSE iv2))
  ELSE attempt

\* redactJSON(jsonString, options)
redactJSON(patterns, jsonString, options, iv, iv2) ==
  CatchText(patterns, jsonString, options,
            TryBlock(patterns, jsonString, options, JSONparse(jsonString),
                     "JSON", iv),
            iv, iv2)
\* ------------------------------------------------------------------------
\* The redaction engine: XML, format detection, redactData
\* ------------------------------------------------------------------------

\* getPatterns(): [...this.patterns]
getPatterns(patterns) == [k \in 1..Len(patterns) |-> patterns[k]]

\* redactXML(xmlString, options), from the call to the returned promise's
\* settlement (the function is suspended once, at its await).
redactXML(patterns, xmlString, options, iv, iv2) ==
  CatchText(patterns, xmlString, options,
            TryBlock(patterns, xmlString, options, XMLparse(xmlString),
                     "XML", iv),
            iv, iv2)

\* String.prototype.trim
trim(s) ==
  LET from == RunEnd(s, 0, Space)
      to == IF from = Len(s) THEN from
            ELSE CHOOSE e \in (from + 1)..Len(s) :
                   /\ s[e] \notin Space
                   /\ \A q \in (e + 1)..Len(s) : s[q] \in Space
  IN  Substring(s, from, to)

\* The format of an input whose trimmed text is trimmed.
FormatOf(trimmed) ==
  IF /\ (StartsWithAt(trimmed, 0, <<"{">>) \/ StartsWithAt(trimmed, 0, <<"[">>))
     /\ JSONparse(trimmed).ok
  THEN "JSON"
  ELSE IF /\ StartsWithAt(trimmed, 0, <<"<">>)
          /\ \E k \in 1..Len(trimmed) : trimmed[k] = ">"
  THEN "XML"
  ELSE "TEXT"

\* detectFormat(input).type
detectFormat(input) == FormatOf(trim(input))

\* A switch whose every case is redactText.
Dispatch_TextOnly(format, patterns, input, options, iv, iv2) ==
  redactText(patterns, input, options, iv)

\* The switch of redactData on format.type
Dispatch(format, patterns, input, options, iv, iv2) ==
  CASE format = "JSON" -> redactJSON(patterns, input, options, iv, iv2)
    [] format = "XML" -> redactXML(patterns, input, options, iv, iv2)
    [] OTHER -> redactText(patterns, input, options, iv)

\* redactData(input, options)
redactData(patterns, input, options, iv, iv2) ==
  Dispatch(detectFormat(input), patterns, input, options, iv, iv2)

\* ------------------------------------------------------------------------
\* The calls the model makes
\* ------------------------------------------------------------------------

\* A key validateKeyStrength accepts.
ValidKey == [k \in 1..KeyChars |-> IF k % 2 = 0 THEN "a" ELSE "7"]

\* ValidKey and one more hexadecimal character.
LongKey == Append(ValidKey, "b")

Texts ==
  { <<"1","2","3","-","4","5","-","6","7","8","9"," ","x","_","1","2","3","-","4","5","-","6","7","8","9">>,
    <<"D","r"," ","A","n","n"," ","L","e","e",","," ","E","M","P","1","2","3"," ","B","A","D","G","E","-","0","7">>,
    <<"1","/","2","/","2","0","2","4"," ","O","a","k"," ","S","t"," ","9","4","1","0","7">>,
    <<"c","a","l","l"," ","5","5","5","-","1","2","3","-","4","5","6","7"," ","a","@","b",".","i","o">>,
    <<"M","R","N",":"," ","1","2","3","4","5","6","7","8","9">>,
    <<"n","o"," ","p","h","i"," ","h","e","r","e">> }

JsonDocs ==
  { <<"{","\"","n","a","m","e","\"",":","\"","D","r"," ","A","n","n"," ","L","e","e","\"",",","\"","s","s","n","\"",":","\"","1","2","3","-","4","5","-","6","7","8","9","\"",",","\"","n","\"",":","[","1",",","t","r","u","e",",","n","u","l","l","]","}">>,
    <<"{","\"","b","\"",":","\"","1","/","2","/","2","0","2","4","\"",",","\"","2","\"",":","\"","x","\"",",","\"","_","_","p","r","o","t","o","_","_","\"",":","\"","1","2","3","-","4","5","-","6","7","8","9","\"","}">>,
    <<" ","[","\"","E","M","P","1","2","3","\"",",","{","\"","k","\"",":","\"","a","@","b",".","i","o","\"","}",",","-","7","]">> }

\* A document whose trimmed text is JSON and whose text is not: trim
\* strips the form feed, JSON.parse does not accept it.
FormFeedDoc == <<"\f">> \o <<"{","\"","a","\"",":","\"","1","2","3","-","4","5","-","6","7","8","9","\"","}">>

NotJson == <<"{","n","o","t"," ","j","s","o","n"," ","1","2","3","-","4","5","-","6","7","8","9">>

XmlDocs ==
  { <<"<","p"," ","i","d","=","\"","1","2","3","-","4","5","-","6","7","8","9","\"",">","<","n",">","D","r"," ","A","n","n"," ","L","e","e","<","/","n",">","<","e","/",">","<","n",">","x","<","/","n",">","<","/","p",">">>,
    <<"<","_","_","p","r","o","t","o","_","_",">","1","2","3","-","4","5","-","6","7","8","9","<","/","_","_","p","r","o","t","o","_","_",">">>,
    <<"<","?","x","m","l"," ","v","e","r","s","i","o","n","=","\"","1",".","0","\"","?",">","<","r",">","<","d",">","1","/","2","/","2","0","2","4","<","/","d",">","E","M","P","1","2","3","<","/","r",">">> }

BadXml == <<"<","a",">","1","2","3","-","4","5","-","6","7","8","9">>

\* Inputs at the edges of detectFormat: a < with no >, a < and a > after
\* another first character, a [ that opens no JSON text, a JSON string
\* (no { or [), an element inside white space, the empty string.
EdgeInputs ==
  { <<"<","3"," ","1","2","3","-","4","5","-","6","7","8","9">>,
    <<"a","<","b",">","1","2","3","-","4","5","-","6","7","8","9">>,
    <<"[","1",","," ","2">>,
    <<"\"","1","2","3","-","4","5","-","6","7","8","9","\"">>,
    <<" ","<","a",">","E","M","P","1","2","3"," ","1","2","3","-","4","5","-","6","7","8","9","<","/","a",">"," ">>,
    <<"1","2","3","4","5","6","7","8","9"," ","O","a","k"," ","S","t">>,
    <<>> }

Custom == Some(CUSTOM_PATTERNS)

OptionSets ==
  { NoOptions,
    RedactionOptions("true", Absent, Absent, Absent, Absent),
    RedactionOptions("false", Absent, Absent, Absent, Absent),
    RedactionOptions("true", Some(<<"#">>), Absent, Absent, Absent),
    RedactionOptions("true", Some(<<"1">>), Absent, Absent, Absent),
    RedactionOptions("false", Absent, Some(ValidKey), Absent, Absent),
    RedactionOptions("false", Absent, Some(<<"n","o","t","h","e","x">>), Absent, Absent),
    RedactionOptions("false", Absent, Some(<<>>), Absent, Absent),
    RedactionOptions("false", Absent, Some(LongKey), Absent, Absent),
    RedactionOptions("false", Absent, Absent,
                     Some(<<"DIRECT_IDENTIFIER", "TEMPORAL">>), Absent),
    RedactionOptions("false", Absent, Absent, Some(<<>>), Absent),
    RedactionOptions("false", Absent, Absent, Absent, Custom),
    RedactionOptions("true", Absent, Some(ValidKey), Some(<<"CONTACT">>), Custom) }

\* The options of the direct calls of redactText, redactJSON and redactXML.
FewOptions ==
  { NoOptions,
    RedactionOptions("false", Absent, Some(ValidKey), Absent, Absent),
    RedactionOptions("false", Absent, Some(<<"n","o","t","h","e","x">>), Absent, Absent) }

\* Options whose custom patterns try the while loop of a scan.
LoopOptions ==
  { RedactionOptions("false", Absent, Absent, Absent, Some(SELF_MATCHING)),
    RedactionOptions("false", Absent, Absent, Absent, Some(SELF_MATCHING_NO_G)),
    RedactionOptions("false", Absent, Absent, Absent, Some(EMPTY_MATCHING)),
    RedactionOptions("true", Absent, Absent, Absent, Some(EMPTY_MATCHING)),
    RedactionOptions("false", Absent, Absent, Absent, Some(PAIR_NO_G)) }

\* The values crypto.randomBytes may return for an iv.
IVs == {"iv1", "iv2"}

\* The ivs the calls of encrypt of one redaction draw: encrypt is called
\* only if the key is truthy, once, and once more in a catch block.
Draws(options) ==
  IF TruthyStr(options.encryptionKey) THEN IVs \X IVs ELSE {<<"iv1", "iv1">>}

\* ------------------------------------------------------------------------
\* The state machine: one engine, one caller, one call at a time
\* ------------------------------------------------------------------------

\* thisPatterns: this.patterns of the engine.
\* pc: "idle", no call in progress; "awaitXml", redactXML suspended at its
\* await; "done", the call's promise settled; "hung", the call is in a
\* loop that never ends (and the thread with it).
\* request: the call in progress (catalog: this.patterns when it began).
\* outcome: how the call ended, with its history.
\* customSeen: history, a call that passed options.customPatterns has ended
\* on this engine.
\* pending: the calls suspended at an await while other calls run (used
\* where callers overlap; empty where there is one call at a time).
\* cipher: the last call of a method of the cipher utility on its own.
\* tool: the tool call the server handles, with its response once it has
\* one (used where the engine is the server's; no call elsewhere).
\* added: history, the patterns addCustomPattern has pushed, in order.
VARIABLES thisPatterns, pc, request, outcome, customSeen, pending, cipher, tool,
          added

vars == <<thisPatterns, pc, request, outcome, customSeen, pending, cipher, tool, added>>

\* No tool call is handled.
NoToolCall == [name |-> "", args |-> <<>>, response |-> <<>>]

\* No call of the cipher utility on its own has been made.
NoCipherCall == [op |-> "none", args |-> <<>>, ret |-> <<>>]

Request(method, input, options, catalog) ==
  [method |-> method, input |-> input, options |-> options, catalog |-> catalog]

NoRequest == Request("none", <<>>, NoOptions, <<>>)

NoOutcome == [status |-> "none", result |-> NoResult, error |-> "", fx |-> NoEffects]

\* constructor: this.patterns = [...PHI_PATTERNS]
Init ==
  /\ thisPatterns = PHI_PATTERNS
  /\ pc = "idle"
  /\ request = NoRequest
  /\ outcome = NoOutcome
  /\ customSeen = FALSE
  /\ pending = <<>>
  /\ cipher = NoCipherCall
  /\ tool = NoToolCall
  /\ added = <<>>

\* An ending of a call that appends the call's custom patterns to
\* this.patterns.
Finish_AppendsCustom(req, out) ==
  /\ outcome' = out
  /\ thisPatterns' = IF req.options.customPatterns.def
                     THEN thisPatterns \o req.options.customPatterns.v
                     ELSE thisPatterns
  /\ customSeen' = (customSeen \/ req.options.customPatterns.def)
  /\ pc' = "done"
  /\ UNCHANGED <<pending, cipher, tool, added>>

\* The call req ends with out: this.patterns is sorted if a sort ran on it.
EndCall(req, out) ==
  /\ outcome' = out
  /\ thisPatterns' = IF out.fx.sorted THEN SortBySeverity(thisPatterns)
                     ELSE thisPatterns
  /\ customSeen' = (customSeen \/ req.options.customPatterns.def)
  /\ pc' = IF out.status = "diverged" THEN "hung" ELSE "done"

\* The call req ends with out, no other call being suspended.
Finish(req, out) ==
  /\ EndCall(req, out)
  /\ UNCHANGED <<pending, cipher, tool, added>>

\* redactData(input, options) up to the settlement of its promise, or up
\* to the await of the redactXML it calls.
DataCall(input, options) ==
  /\ request' = Request("redactData", input, options, Ids(thisPatterns))
  /\ IF detectFormat(input) = "XML"
     THEN /\ pc' = "awaitXml"
          /\ UNCHANGED <<thisPatterns, outcome, customSeen, pending, cipher, tool, added>>
     ELSE \E draw \in Draws(options) :
            Finish(request',
                   redactData(thisPatterns, input, options, draw[1], draw[2]))

\* await engine.redactData(input, options)
RedactData ==
  /\ pc = "idle"
  /\ \/ \E input \in Texts \cup JsonDocs \cup XmlDocs \cup {FormFeedDoc, NotJson, BadXml},
           options \in OptionSets : DataCall(input, options)
     \/ \E input \in EdgeInputs : DataCall(input, NoOptions)

\* await engine.redactText(text, options)
RedactText ==
  /\ pc = "idle"
  /\ \E text \in {<<"D","r"," ","A","n","n"," ","L","e","e"," ","1","/","2","/","2","0","2","4">>, <<"E","M","P","1","2","3"," ","o","k">>, <<"1","2","3","-","4","5","-","6","7","8","9","h","t","t","p",":","/","/","x",".","i","o">>},
        options \in FewOptions \cup LoopOptions :
       /\ request' = Request("redactText", text, options, Ids(thisPatterns))
       /\ \E draw \in Draws(options) :
            Finish(request', redactText(thisPatterns, text, options, draw[1]))

\* await engine.redactJSON(jsonString, options)
RedactJSON ==
  /\ pc = "idle"
  /\ \E jsonString \in {NotJson, <<"{","\"","a","\"",":","\"","1","2","3","-","4","5","-","6","7","8","9","\"","}">>,
                        <<"{","\"","a","\"",":","\"","1","/","2","/","2","0","2","4"," ","O","a","k"," ","S","t"," ","9","4","1","0","7","\"",",","\"","b","\"",":","[","\"","E","M","P","1","2","3","\"",",","\"","a","@","b",".","i","o","\"","]","}">>},
        options \in FewOptions :
       /\ request' = Request("redactJSON", jsonString, options, Ids(thisPatterns))
       /\ \E draw \in Draws(options) :
            Finish(request',
                   redactJSON(thisPatterns, jsonString, options, draw[1], draw[2]))

\* engine.redactXML(xmlString, options), up to its await
RedactXML ==
  /\ pc = "idle"
  /\ \E xmlString \in {BadXml, <<"<","a",">","1","2","3","-","4","5","-","6","7","8","9","<","/","a",">">>}, options \in FewOptions :
       request' = Request("redactXML", xmlString, options, Ids(thisPatterns))
  /\ pc' = "awaitXml"
  /\ UNCHANGED <<thisPatterns, outcome, customSeen, pending, cipher, tool, added>>

\* redactXML from its await to its return
ResumeXML ==
  /\ pc = "awaitXml"
  /\ \E draw \in Draws(request.options) :
       Finish(request,
              redactXML(thisPatterns, request.input, request.options,
                        draw[1], draw[2]))
  /\ UNCHANGED request

\* await engine.redactText(result.redacted, options): the caller redacts,
\* with the same options, the text a redaction of a text returned.
RedactAgain ==
  /\ pc = "done"
  /\ outcome.status = "returned"
  /\ ~outcome.result.encrypted
  /\ request.method \in {"redactData", "redactText"}
  /\ detectFormat(request.input) = "TEXT"
  /\ request' = Request("redactTextAgain", outcome.result.redacted.text,
                        request.options, Ids(thisPatterns))
  /\ Finish(request',
            redactText(thisPatterns, outcome.result.redacted.text,
                       request.options, "iv1"))

\* The caller takes the result; the engine is ready for the next call.
Settle ==
  /\ pc = "done"
  /\ pc' = "idle"
  /\ request' = NoRequest
  /\ outcome' = NoOutcome
  /\ UNCHANGED <<thisPatterns, customSeen, pending, cipher, tool, added>>

Next ==
  \/ RedactData
  \/ RedactText
  \/ RedactJSON
  \/ RedactXML
  \/ ResumeXML
  \/ RedactAgain
  \/ Settle

Spec == Init /\ [][Next]_vars

\* ------------------------------------------------------------------------
\* The cipher utility on its own: calls of the methods of HIPAAEncryption
\* ------------------------------------------------------------------------

\* ValidKey in upper case.
UpperKey == [k \in 1..KeyChars |-> IF k % 2 = 0 THEN "A" ELSE "7"]

\* Another key validateKeyStrength accepts.
OtherKey == [k \in 1..KeyChars |-> "0"]

\* ValidKey without its last character.
ShortKey == SubSeq(ValidKey, 1, KeyChars - 1)

\* KeyChars characters, the last of them no hexadecimal digit.
NonHexKey == Append(ShortKey, "g")

CipherKeys ==
  {ValidKey, LongKey, UpperKey, OtherKey, ShortKey, NonHexKey, <<"n","o","t","h","e","x">>, <<>>}

\* The values randomBytes(this.keyLength) may return.
RandomBytes ==
  {[k \in 1..keyLength |-> b] : b \in {<<"0", "0">>, <<"f", "f">>, <<"3", "c">>}}

Plaintexts == {<<"X","X","X","-","X","X","-","X","X","X","X">>, <<>>, <<"a", LoneSurrogate>>}

\* Strings that are no envelope: not JSON, or JSON without iv and data.
Malformed == {Plain(<<"n","o","t"," ","j","s","o","n">>), Plain(<<"{","}">>), Plain(<<"n","u","l","l">>)}

MaskValues ==
  { <<"1","2","3","-","4","5","-","6","7","8","9">>, <<"0","0","0","-","0","0","-","0","0","0","0">>, <<"(","5","5","5",")"," ","1","2","3","-","4","5","6","7">>, <<"9","4","1","0","7">>,
    <<"9","4","1","0","7","-","1","2","3","4">>, <<"D","r"," ","A","n","n"," ","L","e","e">>, <<"1","2","3","4","5","6","7","8","9">>, <<"a","b">>, <<"a">>, <<>> }

MaskChars == {Absent, Some(<<"#">>), Some(<<"1">>), Some(<<"#","#">>), Some(<<>>)}

CipherCall(op, args, ret) == [op |-> op, args |-> args, ret |-> ret]

\* The engine is not called.
EngineIdle == UNCHANGED <<thisPatterns, pc, request, outcome, customSeen, pending, tool, added>>

CipherInit == Init

\* encryption.generateKey()
GenerateKey ==
  /\ \E bytes \in RandomBytes :
       cipher' = CipherCall("generateKey", <<>>, generateKey(bytes))
  /\ EngineIdle

\* encryption.validateKeyStrength(key), of a key of the caller's
ValidateKeyStrength ==
  /\ \E key \in CipherKeys :
       cipher' = CipherCall("validateKeyStrength",
                            [key |-> key, generated |-> FALSE],
                            validateKeyStrength(key))
  /\ EngineIdle

\* encryption.validateKeyStrength(encryption.generateKey())
ValidateGenerated ==
  /\ cipher.op = "generateKey"
  /\ cipher' = CipherCall("validateKeyStrength",
                          [key |-> cipher.ret, generated |-> TRUE],
                          validateKeyStrength(cipher.ret))
  /\ EngineIdle

\* encryption.encrypt(data, key)
Encrypt ==
  /\ \E data \in Plaintexts, key \in CipherKeys, iv \in IVs :
       cipher' = CipherCall("encrypt", [data |-> data, key |-> key],
                            encrypt(data, key, iv))
  /\ EngineIdle

\* encryption.decrypt(envelope, key) of the envelope encrypt returned.
\* data and encKey are history: what was encrypted, and with which key.
Decrypt ==
  /\ cipher.op = "encrypt"
  /\ cipher.ret.ok
  /\ \E key \in CipherKeys, badPad \in BOOLEAN :
       cipher' = CipherCall("decrypt",
                            [encryptedData |-> cipher.ret.v, key |-> key,
                             data |-> cipher.args.data,
                             encKey |-> cipher.args.key],
                            decrypt(cipher.ret.v, key, badPad))
  /\ EngineIdle

\* encryption.decrypt(encryptedData, key) of a string that is no envelope
DecryptMalformed ==
  /\ \E encryptedData \in Malformed, key \in {ValidKey, <<"n","o","t","h","e","x">>} :
       cipher' = CipherCall("decrypt",
                            [encryptedData |-> encryptedData, key |-> key,
                             data |-> <<>>, encKey |-> <<>>],
                            decrypt(encryptedData, key, TRUE))
  /\ EngineIdle

\* encryption.maskData(data, maskChar, preserveLength)
MaskData ==
  /\ \E data \in MaskValues, maskChar \in MaskChars, preserveLength \in BOOLEAN :
       cipher' = CipherCall("maskData",
                            [data |-> data, maskChar |-> maskChar,
                             preserveLength |-> preserveLength],
                            maskData(data, maskChar, preserveLength))
  /\ EngineIdle

CipherNext ==
  \/ GenerateKey
  \/ ValidateKeyStrength
  \/ ValidateGenerated
  \/ Encrypt
  \/ Decrypt
  \/ DecryptMalformed
  \/ MaskData

CipherSpec == CipherInit /\ [][CipherNext]_vars

\* ------------------------------------------------------------------------
\* Callers that overlap: calls issued while other calls are suspended
\* ------------------------------------------------------------------------

\* The calls that may be suspended at one time.
MaxPending == 2

OverlapXml ==
  { <<"<","a",">","M","R","N",":"," ","1","2","3","4","5","6","7","8","9","<","/","a",">">>,
    <<"<","p"," ","i","d","=","\"","1","2","3","-","4","5","-","6","7","8","9","\"",">","<","n",">","D","r"," ","A","n","n"," ","L","e","e","<","/","n",">","<","/","p",">">> }

OverlapOptions ==
  { NoOptions,
    RedactionOptions("false", Absent, Absent,
                     Some(<<"DIRECT_IDENTIFIER", "HEALTHCARE_ID">>), Absent) }

\* seq without its k-th element
Without(seq, k) == SubSeq(seq, 1, k - 1) \o SubSeq(seq, k + 1, Len(seq))

OverlapInit == Init

\* engine.redactXML(xmlString, options) runs to its await, where it is
\* suspended; it has touched neither this.patterns nor a pattern.
IssueXML ==
  /\ pc = "idle"
  /\ Len(pending) < MaxPending
  /\ \E xmlString \in OverlapXml, options \in OverlapOptions :
       pending' = Append(pending, Request("redactXML", xmlString, options,
                                          Ids(thisPatterns)))
  /\ UNCHANGED <<thisPatterns, pc, request, outcome, customSeen, cipher, tool, added>>

\* engine.redactText(text, options) runs from its call to its return: it
\* has no await, so no other call runs in between, whatever is suspended.
RunText ==
  /\ pc = "idle"
  /\ \E text \in {<<"M","R","N",":"," ","1","2","3","4","5","6","7","8","9">>}, options \in OverlapOptions :
       /\ request' = Request("redactText", text, options, Ids(thisPatterns))
       /\ Finish(request', redactText(thisPatterns, text, options, "iv1"))

\* A suspended redactXML resumes after its await and runs to its return.
\* The calls resume in any order.
ResumeOne ==
  /\ pc = "idle"
  /\ \E k \in 1..Len(pending) :
       /\ request' = pending[k]
       /\ pending' = Without(pending, k)
       /\ EndCall(pending[k],
                  redactXML(thisPatterns, pending[k].input, pending[k].options,
                            "iv1", "iv1"))
  /\ UNCHANGED <<cipher, tool, added>>

OverlapNext ==
  \/ IssueXML
  \/ RunText
  \/ ResumeOne
  \/ Settle

OverlapSpec == OverlapInit /\ [][OverlapNext]_vars


\* ------------------------------------------------------------------------
\* The MCP server: the call-tool handler and the handlers of its tools
\* ------------------------------------------------------------------------

\* The arguments of redact_healthcare_data and analyze_phi_risk: data and
\* options, each absent or a value of the request's JSON text.
ToolArgs(data, options) == [data |-> data, options |-> options]

\* A custom pattern as the arguments of a tool call carry one: its regex
\* is a string of the JSON text, no RegExp.
JSON_PATTERN ==
  << [id |-> "FROM_JSON", name |-> "FROM_JSON",
      regex |-> [source |-> <<"E","M","P","[","0","-","9","]","+">>], category |-> "CLINICAL",
      severity |-> "LOW", replacement |-> <<"[","E","M","P","]">>] >>

\* What a tool's handler returns: { content: [{ type: 'text', text }] },
\* text being JSON.stringify(payload, null, 2).
Content(payload) ==
  [thrown |-> FALSE, isError |-> FALSE, text |-> <<>>, payload |-> payload]

\* What the catch block of the call-tool handler returns.  A message is
\* the sequence of the fragments it is put together from; every value the
\* handlers throw is an Error.
ErrorResponse(message) ==
  [thrown |-> FALSE, isError |-> TRUE, text |-> <<"Error: ">> \o message,
   payload |-> <<>>]

\* A call-tool handler without its catch block.
CallTool_Rethrows(attempt) ==
  IF attempt.ok THEN attempt.v
  ELSE [thrown |-> TRUE, isError |-> FALSE, text |-> <<>>, payload |-> <<>>]

\* The call-tool handler around the handler of a tool that returned
\* (attempt.v) or threw (attempt.error).
CallTool(attempt) ==
  IF attempt.ok THEN attempt.v ELSE ErrorResponse(attempt.error)

\* !data || typeof data !== 'string'
NotAString(data) == ~data.def \/ data.v.t # "str" \/ data.v.v = <<>>

\* const { data, options = {} } = args
OptionsOf(args) == IF args.options.def THEN args.options.v ELSE NoOptions

\* engine.validateEncryptionKey(key)
validateEncryptionKey(key) == validateKeyStrength(key)

\* handleRedactHealthcareData up to its call of the engine: the error it
\* throws, or the data it passes on.
ValidateRedact(args) ==
  IF ~args.def THEN Err(<<"TypeError">>)
  ELSE IF NotAString(args.v.data)
  THEN Err(<<"Data parameter is required and must be a string">>)
  ELSE IF /\ TruthyStr(OptionsOf(args.v).encryptionKey)
          /\ ~validateEncryptionKey(OptionsOf(args.v).encryptionKey.v)
  THEN Err(<<"Invalid encryption key. Must be a 64-character hex string.">>)
  ELSE Ok(args.v.data.v.v)

\* handleAnalyzePHIRisk up to its call of the engine.
ValidateAnalyze(args) ==
  IF ~args.def THEN Err(<<"TypeError">>)
  ELSE IF NotAString(args.v.data)
  THEN Err(<<"Data parameter is required and must be a string">>)
  ELSE Ok(args.v.data.v.v)

\* matches.filter(m => m.severity === severity).length
CountSeverity(matches, severity) ==
  LET Is(m) == m.severity = severity
  IN  Len(SelectSeq(matches, Is))

\* [...new Set(matches.map(m => m.category))]
RECURSIVE CategoriesOf(_)
CategoriesOf(matches) ==
  IF matches = <<>> THEN <<>>
  ELSE LET before == CategoriesOf(SubSeq(matches, 1, Len(matches) - 1))
           c == matches[Len(matches)].category
       IN  IF \E k \in 1..Len(before) : before[k] = c THEN before
           ELSE Append(before, c)

\* The object handleRedactHealthcareData returns as JSON text.
RedactPayload(result) ==
  [redacted_data |-> result.redacted,
   phi_detected |-> Len(result.matches),
   matches |-> result.matches,
   encrypted |-> result.encrypted,
   summary |-> [total_matches |-> Len(result.matches),
                high_severity |-> CountSeverity(result.matches, "HIGH"),
                medium_severity |-> CountSeverity(result.matches, "MEDIUM"),
                low_severity |-> CountSeverity(result.matches, "LOW"),
                categories_detected |-> CategoriesOf(result.matches)]]

calculateRiskLevel(matches) ==
  IF Len(matches) = 0 THEN "LOW"
  ELSE IF CountSeverity(matches, "HIGH") > 0 THEN "HIGH"
  ELSE IF CountSeverity(matches, "MEDIUM") > 0 THEN "MEDIUM"
  ELSE "LOW"

\* The object handleAnalyzePHIRisk returns as JSON text (without its
\* recommendations, sentences chosen by the matches' severities and
\* categories).
AnalyzePayload(result) ==
  [risk_level |-> calculateRiskLevel(result.matches),
   phi_detected |-> Len(result.matches) > 0,
   total_phi_instances |-> Len(result.matches),
   risk_breakdown |-> [high_risk_items |-> CountSeverity(result.matches, "HIGH"),
                       medium_risk_items |-> CountSeverity(result.matches, "MEDIUM"),
                       low_risk_items |-> CountSeverity(result.matches, "LOW")],
   categories_found |-> CategoriesOf(result.matches),
   compliance_status |-> IF Len(result.matches) = 0 THEN "COMPLIANT"
                         ELSE "REQUIRES_REDACTION"]

\* The handler of the tool name after its await of redactData, which
\* ended with out.
HandlerEnd(name, out) ==
  IF out.status = "returned"
  THEN Ok(IF name = "redact_healthcare_data"
          THEN Content(RedactPayload(out.result))
          ELSE Content(AnalyzePayload(out.result)))
  ELSE Err(<<out.error>>)

ToolCall(name, args, response) ==
  [name |-> name, args |-> args, response |-> response]

\* The data and the options of the tool calls the model makes.
ToolTexts ==
  { <<"M","R","N",":"," ","1","2","3","4","5","6","7","8","9">>,
    <<"D","r"," ","A","n","n"," ","L","e","e"," ","1","/","2","/","2","0","2","4">>,
    <<"{","\"","a","\"",":","\"","1","2","3","-","4","5","-","6","7","8","9","\"","}">>,
    <<"<","a",">","1","2","3","-","4","5","-","6","7","8","9","<","/","a",">">>,
    <<"[","1",",","2","]">> }

ToolOptions ==
  { Absent,
    Some(NoOptions),
    Some(RedactionOptions("undefined", Absent, Some(ValidKey), Absent, Absent)),
    Some(RedactionOptions("undefined", Absent, Some(<<"n","o","t","h","e","x">>), Absent, Absent)),
    Some(RedactionOptions("undefined", Absent, Some(<<>>), Absent, Absent)),
    Some(RedactionOptions("true", Absent, Absent, Absent, Absent)),
    Some(RedactionOptions("undefined", Absent, Absent, Absent, Some(JSON_PATTERN))),
    Some(RedactionOptions("undefined", Absent, Some(ValidKey), Absent,
                          Some(JSON_PATTERN))) }

\* Values of data that are no string, or the empty string.
BadData == {Absent, Some(JNum(5)), Some(JNull), Some(JStr(<<>>))}

RedactArgs ==
  {Absent}
    \cup {Some(ToolArgs(d, o)) :
            d \in BadData,
            o \in {Absent,
                   Some(RedactionOptions("undefined", Absent, Some(<<"n","o","t","h","e","x">>),
                                         Absent, Absent))}}
    \cup {Some(ToolArgs(Some(JStr(t)), o)) : t \in ToolTexts, o \in ToolOptions}

AnalyzeArgs ==
  {Absent}
    \cup {Some(ToolArgs(d, Absent)) : d \in BadData}
    \cup {Some(ToolArgs(Some(JStr(t)), Absent)) : t \in ToolTexts}

ValidateArgs ==
  {Absent, Some([key |-> Absent]), Some([key |-> Some(JNum(5))])}
    \cup {Some([key |-> Some(JStr(k))]) : k \in CipherKeys}

ServerInit == Init

\* The handler's await of redactData ended with out: the handler returns
\* or throws, and the call-tool handler responds.  A call that never ends
\* leaves the tool call without response.
Respond(name, args, req, out) ==
  /\ EndCall(req, out)
  /\ tool' = ToolCall(name, args,
                      IF out.status = "diverged" THEN <<>>
                      ELSE CallTool(HandlerEnd(name, out)))

\* await this.redactionEngine.redactData(data, options) from the handler
\* of the tool name: to the response, or to the await of redactXML.
ToolEngineCall(name, args, data, options) ==
  /\ request' = Request("redactData", data, options, Ids(thisPatterns))
  /\ IF detectFormat(data) = "XML"
     THEN /\ pc' = "awaitXml"
          /\ tool' = ToolCall(name, args, <<>>)
          /\ UNCHANGED <<thisPatterns, outcome, customSeen>>
     ELSE \E draw \in Draws(options) :
            Respond(name, args, request',
                    redactData(thisPatterns, data, options, draw[1], draw[2]))

\* The handler of the tool name threw error before any call of the engine.
Refuse(name, args, error) ==
  /\ tool' = ToolCall(name, args, CallTool(Err(error)))
  /\ pc' = "done"
  /\ UNCHANGED <<thisPatterns, request, outcome, customSeen>>

\* The handler of tool name ran without the engine's redaction and returned
\* or threw attempt.
Answer(name, args, attempt) ==
  /\ tool' = ToolCall(name, args, CallTool(attempt))
  /\ pc' = "done"
  /\ UNCHANGED <<thisPatterns, request, outcome, customSeen, pending, cipher, added>>

\* A call of redact_healthcare_data: handleRedactHealthcareData
CallRedactHealthcareData ==
  /\ pc = "idle"
  /\ \E args \in RedactArgs :
       IF ValidateRedact(args).ok
       THEN ToolEngineCall("redact_healthcare_data", args,
                           ValidateRedact(args).v, OptionsOf(args.v))
       ELSE Refuse("redact_healthcare_data", args, ValidateRedact(args).error)
  /\ UNCHANGED <<pending, cipher, added>>

\* A call of analyze_phi_risk: handleAnalyzePHIRisk
CallAnalyzePHIRisk ==
  /\ pc = "idle"
  /\ \E args \in AnalyzeArgs :
       IF ValidateAnalyze(args).ok
       THEN ToolEngineCall("analyze_phi_risk", args, ValidateAnalyze(args).v,
                           RedactionOptions("true", Absent, Absent, Absent, Absent))
       ELSE Refuse("analyze_phi_risk", args, ValidateAnalyze(args).error)
  /\ UNCHANGED <<pending, cipher, added>>

\* The handler resumes after the await of redactXML inside redactData.
ResumeTool ==
  /\ pc = "awaitXml"
  /\ \E draw \in Draws(request.options) :
       Respond(tool.name, tool.args, request,
               redactXML(thisPatterns, request.input, request.options,
                         draw[1], draw[2]))
  /\ UNCHANGED <<request, pending, cipher, added>>

\* A call of generate_encryption_key: handleGenerateEncryptionKey
CallGenerateEncryptionKey ==
  /\ pc = "idle"
  /\ \E bytes \in RandomBytes :
       Answer("generate_encryption_key", Absent,
              Ok(Content([encryption_key |-> generateKey(bytes),
                          key_strength |-> "256-bit AES"])))

\* A call of validate_encryption_key: handleValidateEncryptionKey
CallValidateEncryptionKey ==
  /\ pc = "idle"
  /\ \E args \in ValidateArgs :
       Answer("validate_encryption_key", args,
              IF ~args.def THEN Err(<<"TypeError">>)
              ELSE IF NotAString(args.v.key)
              THEN Err(<<"Key parameter is required and must be a string">>)
              ELSE Ok(Content([valid |-> validateEncryptionKey(args.v.key.v.v),
                               key_length |-> Len(args.v.key.v.v),
                               expected_length |-> KeyChars])))

\* A call of a tool the switch has no case for.
CallUnknownTool ==
  /\ pc = "idle"
  /\ \E name \in {"redact", "decrypt_healthcare_data"} :
       Answer(name, Absent, Err(<<"Unknown tool: ", name>>))

\* The response is sent; the server takes the next request.
Reply ==
  /\ pc = "done"
  /\ pc' = "idle"
  /\ request' = NoRequest
  /\ outcome' = NoOutcome
  /\ tool' = NoToolCall
  /\ UNCHANGED <<thisPatterns, customSeen, pending, cipher, added>>

ServerNext ==
  \/ CallRedactHealthcareData
  \/ CallAnalyzePHIRisk
  \/ ResumeTool
  \/ CallGenerateEncryptionKey
  \/ CallValidateEncryptionKey
  \/ CallUnknownTool
  \/ Reply

ServerSpec == ServerInit /\ [][ServerNext]_vars

\* ------------------------------------------------------------------------
\* An engine with a history: addCustomPattern between the calls
\* ------------------------------------------------------------------------

\* The patterns that may be added to one engine.
MaxAdded == 2

\* The patterns addCustomPattern is called with.
Addable == {CUSTOM_PATTERNS[1], CUSTOM_PATTERNS[2], SELF_MATCHING[1]}

HistoryInputs ==
  { <<"D","r"," ","A","n","n"," ","L","e","e",","," ","E","M","P","1","2","3"," ","B","A","D","G","E","-","0","7">>,
    <<"E","M","P","1","2","3"," ","o","k">>,
    <<" ","[","\"","E","M","P","1","2","3","\"",",","{","\"","k","\"",":","\"","a","@","b",".","i","o","\"","}",",","-","7","]">> }

HistoryOptions ==
  { NoOptions,
    RedactionOptions("true", Absent, Absent, Absent, Absent),
    RedactionOptions("false", Absent, Absent,
                     Some(<<"CLINICAL", "DIRECT_IDENTIFIER">>), Absent),
    RedactionOptions("false", Absent, Absent, Absent, Custom) }

HistoryInit == Init

\* engine.addCustomPattern(pattern): this.patterns.push(pattern)
AddCustomPattern ==
  /\ pc = "idle"
  /\ Len(added) < MaxAdded
  /\ \E pattern \in Addable :
       /\ \A k \in 1..Len(added) : added[k] # pattern
       /\ thisPatterns' = Append(thisPatterns, pattern)
       /\ added' = Append(added, pattern)
  /\ UNCHANGED <<pc, request, outcome, customSeen, pending, cipher, tool>>

\* await engine.redactData(input, options), of an input that is no XML
HistoryCall ==
  /\ pc = "idle"
  /\ \E input \in HistoryInputs, options \in HistoryOptions :
       /\ request' = Request("redactData", input, options, Ids(thisPatterns))
       /\ Finish(request',
                 redactData(thisPatterns, input, options, "iv1", "iv1"))

HistoryNext ==
  \/ AddCustomPattern
  \/ HistoryCall
  \/ Settle

HistorySpec == HistoryInit /\ [][HistoryNext]_vars
\* ------------------------------------------------------------------------
\* Properties
\* ------------------------------------------------------------------------

\* A call has ended.
Done == pc = "done"

\* A call has returned a result.
HasReturned == Done /\ outcome.status = "returned"

\* The redacted string of a returned result that is not encrypted, or the
\* string that was encrypted into it.
RedactedString ==
  IF outcome.result.encrypted
  THEN outcome.fx.encrypts[Len(outcome.fx.encrypts)]
  ELSE outcome.result.redacted.text

IsSubstring(a, b) ==
  \E p \in 0..(Len(b) - Len(a)) : Substring(b, p, p + Len(a)) = a

AlNum == Lower \cup Upper \cup Digit

\* The mask character of the call holds no letter and no digit.
PlainMask(req) ==
  req.options.maskCharacter.def =>
    \A k \in 1..Len(req.options.maskCharacter.v) :
      req.options.maskCharacter.v[k] \notin AlNum

Known ==
  PHI_PATTERNS \o CUSTOM_PATTERNS \o SELF_MATCHING \o SELF_MATCHING_NO_G
    \o EMPTY_MATCHING \o PAIR_NO_G

BuiltIn == {PHI_PATTERNS[k].id : k \in 1..Len(PHI_PATTERNS)}

SeverityOf(id) ==
  Known[CHOOSE k \in 1..Len(Known) : Known[k].id = id].severity

CategoryOf(id) ==
  Known[CHOOSE k \in 1..Len(Known) : Known[k].id = id].category

\* The format the call was dispatched to.
DispatchedTo(req) ==
  CASE req.method = "redactData" -> detectFormat(req.input)
    [] req.method = "redactJSON" -> "JSON"
    [] req.method = "redactXML" -> "XML"
    [] OTHER -> "TEXT"

\* The parser of the format the call was dispatched to accepts the input.
Parses(req) ==
  CASE DispatchedTo(req) = "JSON" -> JSONparse(req.input).ok
    [] DispatchedTo(req) = "XML" -> XMLparse(req.input).ok
    [] OTHER -> TRUE

\* The call redacts its input as plain text.
TextCall(req) == DispatchedTo(req) = "TEXT" \/ ~Parses(req)

ValidKeyGiven(req) ==
  req.options.encryptionKey.def /\ validateKeyStrength(req.options.encryptionKey.v)

\* The call of req's method on an engine whose this.patterns is patterns.
Perform(req, patterns, options, iv) ==
  CASE req.method = "redactData" -> redactData(patterns, req.input, options, iv, iv)
    [] req.method = "redactJSON" -> redactJSON(patterns, req.input, options, iv, iv)
    [] req.method = "redactXML" -> redactXML(patterns, req.input, options, iv, iv)
    [] OTHER -> redactText(patterns, req.input, options, iv)

\* Two trees differ in the values of their string leaves at most.
RECURSIVE SameShape(_, _)
SameShape(a, b) ==
  /\ a.t = b.t
  /\ CASE a.t = "str" -> TRUE
       [] a.t = "arr" ->
            /\ Len(a.v) = Len(b.v)
            /\ \A k \in 1..Len(a.v) : SameShape(a.v[k], b.v[k])
       [] a.t = "obj" ->
            /\ Len(a.v) = Len(b.v)
            /\ \A k \in 1..Len(a.v) :
                 a.v[k].key = b.v[k].key /\ SameShape(a.v[k].val, b.v[k].val)
       [] OTHER -> a = b

\* C1 (as the specification states it): with preserveFormat false, the
\* redacted string returned contains no substring equal to the literal
\* text of a span that a built-in pattern recorded as a match in the call.
C1_NoMatchedLiteralSurvives ==
  (HasReturned /\ request.options.preserveFormat = "false") =>
    \A k \in 1..Len(outcome.fx.subs) :
      outcome.fx.by[k] \in BuiltIn =>
        ~IsSubstring(outcome.fx.subs[k].span, RedactedString)

\* C2: with preserveFormat true and a mask character that is no letter or
\* digit, the text put in place of a matched span keeps of the span's
\* letters and digits, at their places, at most the first and the last
\* character, and those only of a span longer than two characters.
C2_MaskKeepsOnlyEnds ==
  (HasReturned /\ request.options.preserveFormat = "true"
               /\ PlainMask(request)) =>
    \A k \in 1..Len(outcome.fx.subs) :
      LET span == outcome.fx.subs[k].span
          put == outcome.fx.subs[k].replacement
      IN  \A j \in 1..Len(span) :
            (span[j] \in AlNum /\ j <= Len(put) /\ put[j] = span[j])
              => (Len(span) > 2 /\ j \in {1, Len(span)})

\* C2 (as the specification states it): with preserveFormat true, no letter
\* or digit of a matched span stands at its place in the text put in place
\* of the span.
C2_NoOriginalCharacterSurvives ==
  (HasReturned /\ request.options.preserveFormat = "true"
               /\ PlainMask(request)) =>
    \A k \in 1..Len(outcome.fx.subs) :
      LET span == outcome.fx.subs[k].span
          put == outcome.fx.subs[k].replacement
      IN  \A j \in 1..Len(span) :
            (span[j] \in AlNum /\ j <= Len(put)) => put[j] # span[j]

\* A span was masked by the generic rule, which kept its first letter, and
\* another by a shape rule.
C2_Witness ==
  /\ HasReturned
  /\ request.options.preserveFormat = "true"
  /\ PlainMask(request)
  /\ \E k \in 1..Len(outcome.fx.subs) :
       /\ Len(outcome.fx.subs[k].span) > 2
       /\ outcome.fx.subs[k].span[1] \in AlNum
       /\ outcome.fx.subs[k].replacement[1] = outcome.fx.subs[k].span[1]
  /\ \E k \in 1..Len(outcome.fx.subs) :
       outcome.fx.subs[k].replacement = <<"X","X","X","-","X","X","-","X","X","X","X">>

\* C3 (as the specification states it): a call whose options omit
\* preserveFormat puts maskData's mask in place of every matched span.
C3_OmittedPreserveFormatMasks ==
  (HasReturned /\ request.options.preserveFormat = "undefined") =>
    \A k \in 1..Len(outcome.fx.subs) :
      outcome.fx.subs[k].replacement =
        maskData(outcome.fx.subs[k].span, request.options.maskCharacter, TRUE)

\* C4 (as the specification states it): a call whose encryptionKey is
\* present and is not 64 hexadecimal characters throws, and when it does no
\* pattern has been applied, no match recorded and no substitution made.
C4_InvalidKeyRejectedFirst ==
  (Done /\ request.options.encryptionKey.def
        /\ ~validateKeyStrength(request.options.encryptionKey.v)) =>
    /\ outcome.status = "threw"
    /\ outcome.fx.passes = <<>>
    /\ outcome.fx.subs = <<>>

\* C5: a call whose input the parser of its format rejects, made with no
\* key or a valid key, returns, and returns the result redactText gives for
\* the whole input with the same options.
C5_ParseFailureFallsBackToText ==
  (Done /\ ~Parses(request)
        /\ (~request.options.encryptionKey.def \/ ValidKeyGiven(request))) =>
    /\ outcome.status = "returned"
    /\ \E iv \in IVs :
         outcome.result =
           redactText(thisPatterns, request.input, request.options, iv).result

\* Input that redactData took for JSON and JSON.parse rejected was
\* redacted as text and encrypted.
C5_Witness ==
  /\ HasReturned
  /\ ~Parses(request)
  /\ request.method = "redactData"
  /\ DispatchedTo(request) = "JSON"
  /\ outcome.result.matches # <<>>
  /\ outcome.result.encrypted

\* C6 (as the specification states it): the redacted string of a JSON
\* document parses to a tree that differs from the document's tree in the
\* values of string leaves only: same keys in the same order, same array
\* lengths, same nesting, same numbers, booleans and nulls.
C6_JSONStructurePreserved ==
  (HasReturned /\ DispatchedTo(request) = "JSON" /\ Parses(request)) =>
    /\ JSONparse(RedactedString).ok
    /\ SameShape(JSONparse(request.input).v, JSONparse(RedactedString).v)

\* C7 (as the specification states it): the redacted string of a
\* well-formed XML document parses to a tree with the element names, the
\* attribute names and the shape of the document's tree.
C7_XMLNamesPreserved ==
  (HasReturned /\ DispatchedTo(request) = "XML" /\ Parses(request)) =>
    /\ XMLparse(RedactedString).ok
    /\ SameShape(XMLparse(request.input).v, XMLparse(RedactedString).v)

\* The result of the call made without its key.
Keyless ==
  Perform(request, thisPatterns,
          [request.options EXCEPT !.encryptionKey = Absent], "iv1").result

RankOf(id) == severityOrder(SeverityOf(id))

\* The patterns the call has to choose from, in order: this.patterns when
\* the call began, then options.customPatterns.
Candidates(req) ==
  req.catalog \o (IF req.options.customPatterns.def
                  THEN Ids(req.options.customPatterns.v) ELSE <<>>)

PositionIn(ids, id) == CHOOSE k \in 1..Len(ids) : ids[k] = id

\* text after the substitutions subs[k..] made at the positions the
\* matches give, one after another; <<"?">> if a match does not hold the
\* span recorded for it.
RECURSIVE Replay(_, _, _, _)
Replay(text, subs, matches, k) ==
  IF k > Len(subs) THEN text
  ELSE IF Substring(text, matches[k].position,
                    matches[k].position + matches[k].length) # subs[k].span
  THEN <<"?">>
  ELSE Replay(Substring(text, 0, matches[k].position) \o subs[k].replacement
                \o Substring(text, matches[k].position + matches[k].length,
                             Len(text)),
              subs, matches, k + 1)

\* C9: in the redaction of a text the applicable patterns run one after
\* another, by descending severity, those of one severity in their order
\* in the catalog followed by the custom patterns; every match is found in
\* the string as the matches before it left it; and no match of a lower
\* severity precedes a match of a higher severity in the matches returned.
C9_SeverityOrder ==
  (HasReturned /\ TextCall(request)) =>
    /\ \A a, b \in 1..Len(outcome.fx.passes) :
         a < b =>
           /\ RankOf(outcome.fx.passes[a]) <= RankOf(outcome.fx.passes[b])
           /\ RankOf(outcome.fx.passes[a]) = RankOf(outcome.fx.passes[b]) =>
                PositionIn(Candidates(request), outcome.fx.passes[a])
                  < PositionIn(Candidates(request), outcome.fx.passes[b])
    /\ \A a, b \in 1..Len(outcome.result.matches) :
         a < b => severityOrder(outcome.result.matches[a].severity)
                    <= severityOrder(outcome.result.matches[b].severity)
    /\ Replay(request.input, outcome.fx.subs, outcome.result.matches, 1)
         = RedactedString

\* In a text, a pattern of high severity that is after one of medium
\* severity in the catalog ran before it and took a span from it, and a
\* match of low severity was recorded after one of high severity.
C9_Witness ==
  /\ HasReturned
  /\ TextCall(request)
  /\ \E a, b \in 1..Len(outcome.fx.passes) :
       /\ a < b
       /\ PositionIn(Candidates(request), outcome.fx.passes[a])
            > PositionIn(Candidates(request), outcome.fx.passes[b])
  /\ \E a, b \in 1..Len(outcome.result.matches) :
       /\ a < b
       /\ outcome.result.matches[a].severity = "HIGH"
       /\ outcome.result.matches[b].severity = "LOW"

\* The patterns of the catalog a list of categories allows.
AllowedBy(req) ==
  {req.catalog[k] : k \in {j \in 1..Len(req.catalog) :
     \E c \in 1..Len(req.options.categories.v) :
       req.options.categories.v[c] = CategoryOf(req.catalog[j])}}

CatalogOf(req) == {req.catalog[k] : k \in 1..Len(req.catalog)}

CustomOf(req) ==
  IF req.options.customPatterns.def
  THEN {req.options.customPatterns.v[k].id :
          k \in 1..Len(req.options.customPatterns.v)}
  ELSE {}

\* The call scanned a string.
Scanned == TextCall(request) \/ outcome.fx.passes # <<>>

\* C10: the patterns a call applies are the catalog patterns whose
\* category is in options.categories (all catalog patterns when categories
\* is absent or empty) and every pattern of options.customPatterns; no
\* other pattern records a match.
C10_AppliedPatterns ==
  (HasReturned /\ Scanned) =>
    LET applied ==
          (IF request.options.categories.def
                /\ request.options.categories.v # <<>>
           THEN AllowedBy(request) ELSE CatalogOf(request))
            \cup CustomOf(request)
    IN  /\ {outcome.fx.passes[k] : k \in 1..Len(outcome.fx.passes)} = applied
        /\ \A k \in 1..Len(outcome.fx.by) : outcome.fx.by[k] \in applied

\* C10 (as the specification states it): the patterns a call applies are
\* the catalog patterns whose category is in options.categories (all
\* catalog patterns when categories is absent) and every pattern of
\* options.customPatterns; no other pattern records a match.
C10_AppliedPatternsAsStated ==
  (HasReturned /\ Scanned) =>
    LET applied ==
          (IF request.options.categories.def
           THEN AllowedBy(request) ELSE CatalogOf(request))
            \cup CustomOf(request)
    IN  /\ {outcome.fx.passes[k] : k \in 1..Len(outcome.fx.passes)} = applied
        /\ \A k \in 1..Len(outcome.fx.by) : outcome.fx.by[k] \in applied

\* A call with a list of categories and custom patterns recorded a match
\* of a catalog pattern and a match of a custom pattern.
C10_Witness ==
  /\ HasReturned
  /\ request.options.categories.def
  /\ request.options.categories.v # <<>>
  /\ request.options.customPatterns.def
  /\ \E k \in 1..Len(outcome.fx.by) : outcome.fx.by[k] \in BuiltIn
  /\ \E k \in 1..Len(outcome.fx.by) : outcome.fx.by[k] \in CustomOf(request)

\* C11 (as the specification states it): a call leaves the pattern catalog
\* as it found it: when the call has ended, getPatterns() returns the
\* patterns it returned when the call began, in the same order.
C11_CatalogUnchangedByCall ==
  Done => Ids(getPatterns(thisPatterns)) = request.catalog

\* C12: the patterns of options.customPatterns are never added to
\* this.patterns, which holds the built-in patterns and no other at all
\* times, and a call without customPatterns neither runs nor records a
\* match of a pattern that is not built in, whatever calls came before it.
C12_CustomPatternsScopedToCall ==
  /\ Len(thisPatterns) = Len(PHI_PATTERNS)
  /\ {thisPatterns[k].id : k \in 1..Len(thisPatterns)} = BuiltIn
  /\ (Done /\ ~request.options.customPatterns.def) =>
       /\ \A k \in 1..Len(outcome.fx.passes) : outcome.fx.passes[k] \in BuiltIn
       /\ \A k \in 1..Len(outcome.fx.by) : outcome.fx.by[k] \in BuiltIn

\* After a call with customPatterns ended on the engine, a call without
\* them returned for a text that a custom pattern matches.
C12_Witness ==
  /\ HasReturned
  /\ customSeen
  /\ ~request.options.customPatterns.def
  /\ IsSubstring(<<"E","M","P","1","2","3">>, request.input)
  /\ outcome.result.matches # <<>>

\* C14 (as the specification states it): every call ends, with a result or
\* an exception: no call stays in a loop for ever.
C14_EveryCallTerminates == pc # "hung" /\ outcome.status # "diverged"

\* The call redacted the text that a redaction of a text had returned.
Again == Done /\ request.method = "redactTextAgain"

\* C15 (as the specification states it): the redaction, with the same
\* options, of the text a redaction of a text returned records no match of
\* HIGH severity.
C15_SecondRunFindsNoHighMatch ==
  (Again /\ HasReturned) =>
    \A k \in 1..Len(outcome.result.matches) :
      outcome.result.matches[k].severity # "HIGH"

\* value has the shape of template: a digit where the template has "d", a
\* white-space character where it has "s", the template's character elsewhere.
HasShape(value, template) ==
  /\ Len(value) = Len(template)
  /\ \A k \in 1..Len(template) :
       CASE template[k] = "d" -> value[k] \in Digit
         [] template[k] = "s" -> value[k] \in Space
         [] OTHER -> value[k] = template[k]

\* C16: validateKeyStrength(key) is true exactly if key has 64 characters,
\* each a hexadecimal digit, and it is true of every key generateKey
\* returns.
C16_KeyStrength ==
  /\ cipher.op = "validateKeyStrength" =>
       (cipher.ret <=> (/\ Len(cipher.args.key) = 64
                        /\ \A k \in 1..Len(cipher.args.key) :
                             cipher.args.key[k] \in Hex))
  /\ cipher.op = "generateKey" => validateKeyStrength(cipher.ret)

\* validateKeyStrength accepted a key that generateKey had returned.
C16_Witness ==
  /\ cipher.op = "validateKeyStrength"
  /\ cipher.args.generated
  /\ cipher.ret

\* C17 (as the specification states it): encrypt returns an envelope for
\* the keys validateKeyStrength accepts and fails for every other key.
C17_EncryptRejectsInvalidKeys ==
  cipher.op = "encrypt" =>
    (cipher.ret.ok <=> validateKeyStrength(cipher.args.key))

\* C18 (as the specification states it): decrypt with the key of encrypt
\* returns the plaintext that was encrypted, and decrypt of a string that is
\* no envelope or with another key fails.
C18_DecryptInvertsEncrypt ==
  cipher.op = "decrypt" =>
    IF cipher.args.encryptedData.kind # "envelope" THEN ~cipher.ret.ok
    ELSE IF cipher.args.key = cipher.args.encKey
    THEN validateKeyStrength(cipher.args.key) =>
           cipher.ret = Ok(Plain(cipher.args.data))
    ELSE ~cipher.ret.ok

\* C19: maskData with preserveLength true returns XXX-XX-XXXX for every
\* value of three digits, a hyphen, two digits, a hyphen and four digits,
\* whatever the mask character.
C19_SsnShapeMask ==
  (/\ cipher.op = "maskData"
   /\ cipher.args.preserveLength
   /\ HasShape(cipher.args.data, <<"d","d","d","-","d","d","-","d","d","d","d">>)) =>
    cipher.ret = <<"X","X","X","-","X","X","-","X","X","X","X">>

\* A value of the shape was masked with a mask character of the caller's.
C19_Witness ==
  /\ cipher.op = "maskData"
  /\ cipher.args.preserveLength
  /\ cipher.args.maskChar = Some(<<"#">>)
  /\ cipher.args.data = <<"0","0","0","-","0","0","-","0","0","0","0">>
  /\ cipher.ret = <<"X","X","X","-","X","X","-","X","X","X","X">>

\* C20 (as the specification states it): for a value of none of the
\* shapes of SSN, phone and ZIP, maskData with preserveLength true returns
\* a string as long as the value: mask characters only for a value of two
\* characters at most, else the value's first character, mask characters
\* and the value's last character.
C20_GenericMask ==
  (/\ cipher.op = "maskData"
   /\ cipher.args.preserveLength
   /\ ~HasShape(cipher.args.data, <<"d","d","d","-","d","d","-","d","d","d","d">>)
   /\ ~HasShape(cipher.args.data, <<"(","d","d","d",")","s","d","d","d","-","d","d","d","d">>)
   /\ ~HasShape(cipher.args.data, <<"d","d","d","d","d">>)
   /\ ~HasShape(cipher.args.data, <<"d","d","d","d","d","-","d","d","d","d">>)) =>
    LET data == cipher.args.data
        maskChar == IF cipher.args.maskChar.def THEN cipher.args.maskChar.v
                    ELSE <<"*">>
    IN  /\ Len(cipher.ret) = Len(data)
        /\ \A k \in 1..Len(cipher.ret) :
             IF Len(data) > 2 /\ k \in {1, Len(data)}
             THEN cipher.ret[k] = data[k]
             ELSE \E j \in 1..Len(maskChar) : cipher.ret[k] = maskChar[j]

\* this.patterns as it was when the call req began.
CatalogAt(req) ==
  [k \in 1..Len(req.catalog) |->
     PHI_PATTERNS[CHOOSE j \in 1..Len(PHI_PATTERNS) :
                    PHI_PATTERNS[j].id = req.catalog[k]]]

\* How the call req ends on an engine on which no other call runs from
\* its beginning to its end.
Alone(req) == Perform(req, CatalogAt(req), req.options, "iv1")

\* C13: a call that was suspended while other calls began, ran or ended on
\* the engine, and a call that ran while others were suspended, ends as it
\* ends alone on the engine as the call found it: same result, same matches
\* in the same order.
C13_OverlappingCallsAsAlone ==
  Done => /\ outcome.status = Alone(request).status
          /\ outcome.result = Alone(request).result

\* A redactXML call that does not sort this.patterns returned matches
\* after another call had sorted this.patterns while it was suspended.
C13_Witness ==
  /\ HasReturned
  /\ request.method = "redactXML"
  /\ ~outcome.fx.sorted
  /\ request.catalog # Ids(thisPatterns)
  /\ outcome.result.matches # <<>>

\* The format the stated decision gives an input: JSON if the trimmed input
\* starts with { or [ and is a JSON text; else XML if it starts with < and
\* holds a >; else TEXT.
StatedFormat(input) ==
  LET trimmed == trim(input)
      first == IF trimmed = <<>> THEN "" ELSE trimmed[1]
  IN  IF first \in {"{", "["} /\ JSONparse(trimmed).ok THEN "JSON"
      ELSE IF first = "<" /\ (\E k \in 1..Len(trimmed) : trimmed[k] = ">")
      THEN "XML"
      ELSE "TEXT"

\* How the redaction method of format ends the call req on the engine as
\* the call found it.
MethodOf(format, req, iv, iv2) ==
  CASE format = "JSON" ->
         redactJSON(CatalogAt(req), req.input, req.options, iv, iv2)
    [] format = "XML" ->
         redactXML(CatalogAt(req), req.input, req.options, iv, iv2)
    [] format = "TEXT" ->
         redactText(CatalogAt(req), req.input, req.options, iv)

\* Two outcomes are the same to the caller.
SameEnd(out, expected) ==
  /\ out.status = expected.status
  /\ out.result = expected.result
  /\ out.error = expected.error

\* C21: redactData ends as the redaction method of the stated format of
\* its input ends (redactJSON, redactXML or redactText, one of the three
\* for every input), and it is suspended at an await only for an input
\* whose stated format is XML.
C21_DetectAndDispatch ==
  /\ (pc = "awaitXml" /\ request.method = "redactData") =>
       StatedFormat(request.input) = "XML"
  /\ (pc \in {"done", "hung"} /\ request.method = "redactData") =>
       \E draw \in Draws(request.options) :
         SameEnd(outcome,
                 MethodOf(StatedFormat(request.input), request,
                          draw[1], draw[2]))

\* redactData returned the re-serialized redaction of a JSON text that
\* stands after white space.
C21_Witness ==
  /\ HasReturned
  /\ request.method = "redactData"
  /\ request.input # <<>>
  /\ request.input[1] = " "
  /\ StatedFormat(request.input) = "JSON"
  /\ outcome.result.matches # <<>>
  /\ outcome.result.redacted.text[1] = "["

\* The tools whose handlers the model holds.
KnownTools ==
  {"redact_healthcare_data", "generate_encryption_key",
   "validate_encryption_key", "analyze_phi_risk"}

\* The tool call has its response.
Responded == tool.name # "" /\ tool.response # <<>>

\* The failure raised while the tool call was handled, if any, with its
\* message: an unknown tool name, arguments that are missing, an argument
\* that is missing or no string, a key that is given and not valid, an
\* error the engine or the cipher threw.
Failure ==
  IF tool.name \notin KnownTools THEN Some(<<"Unknown tool: ", tool.name>>)
  ELSE IF tool.name = "generate_encryption_key" THEN Absent
  ELSE IF ~tool.args.def THEN Some(<<"TypeError">>)
  ELSE IF tool.name = "validate_encryption_key"
  THEN IF NotAString(tool.args.v.key)
       THEN Some(<<"Key parameter is required and must be a string">>)
       ELSE Absent
  ELSE IF NotAString(tool.args.v.data)
  THEN Some(<<"Data parameter is required and must be a string">>)
  ELSE IF /\ tool.name = "redact_healthcare_data"
          /\ TruthyStr(OptionsOf(tool.args.v).encryptionKey)
          /\ ~validateKeyStrength(OptionsOf(tool.args.v).encryptionKey.v)
  THEN Some(<<"Invalid encryption key. Must be a 64-character hex string.">>)
  ELSE IF outcome.status = "threw" THEN Some(<<outcome.error>>)
  ELSE Absent

\* C22: the call-tool handler never throws; a tool call during which a
\* failure was raised is answered with isError true and the text "Error: "
\* followed by the failure's message, and any other tool call is answered
\* without isError.
C22_FailuresBecomeErrorResponses ==
  Responded =>
    /\ ~tool.response.thrown
    /\ tool.response.isError = Failure.def
    /\ Failure.def => tool.response.text = <<"Error: ">> \o Failure.v

\* The engine threw while redact_healthcare_data was handled, after the
\* validation had passed, and the call was answered with the error.
C22_Witness ==
  /\ Responded
  /\ tool.name = "redact_healthcare_data"
  /\ outcome.status = "threw"
  /\ tool.response.isError
  /\ tool.response.text = <<"Error: ", "TypeError">>

\* C23 (as the specification states it): of two matches that one pattern
\* records one after the other in its pass over a text, the second stands
\* at or after the end of the text put in place of the first, and at a
\* greater position than the first.
C23_ScanResumesAfterReplacement ==
  (HasReturned /\ DispatchedTo(request) = "TEXT") =>
    \A k \in 1..(Len(outcome.result.matches) - 1) :
      outcome.fx.by[k] = outcome.fx.by[k + 1] =>
        /\ outcome.result.matches[k + 1].position
             >= outcome.result.matches[k].position
                  + Len(outcome.fx.subs[k].replacement)
        /\ outcome.result.matches[k + 1].position
             > outcome.result.matches[k].position


\* C24 (as the specification states it): a call of redactJSON or redactXML
\* whose input the parser accepts hands at most one text to encrypt, and
\* that text is the serialized tree, not a redaction of the input as plain
\* text; an error of encrypt ends the call.
C24_FallbackOnlyOnParseFailure ==
  (Done /\ DispatchedTo(request) \in {"JSON", "XML"} /\ Parses(request)) =>
    /\ Len(outcome.fx.encrypts) <= 1
    /\ outcome.status = "threw" => Len(outcome.fx.encrypts) = 1

\* The engine's redactData was called while the tool call was handled.
EngineCalled == request.method = "redactData"

\* C25 (as the specification states it): while redact_healthcare_data is
\* handled the engine is called only if data is given and is a string and
\* the encryptionKey of the options, if one is given, is a key that
\* validateEncryptionKey accepts; and a response with encrypted true comes
\* of such a key.
C25_EngineCalledAfterValidation ==
  (tool.name = "redact_healthcare_data" /\ EngineCalled) =>
    /\ tool.args.def
    /\ tool.args.v.data.def
    /\ tool.args.v.data.v.t = "str"
    /\ OptionsOf(tool.args.v).encryptionKey.def =>
         validateEncryptionKey(OptionsOf(tool.args.v).encryptionKey.v)
    /\ (Responded /\ ~tool.response.isError
                  /\ tool.response.payload.encrypted) =>
         validateEncryptionKey(OptionsOf(tool.args.v).encryptionKey.v)

\* C26 (as the specification states it): a result the engine returns has
\* encrypted true exactly if the options of the call hold an encryptionKey,
\* and the redacted of a result with encrypted true is an envelope of iv
\* and ciphertext.
C26_EncryptedIffKeySupplied ==
  HasReturned =>
    /\ outcome.result.encrypted = request.options.encryptionKey.def
    /\ outcome.result.encrypted => outcome.result.redacted.kind = "envelope"

\* C27 (as the specification states it): every match recorded in a call
\* that scans its input as one plain text locates its span in the input:
\* the characters of the input at [position, position + length) are the
\* text the pattern matched.
C27_MatchLocatesSpanInInput ==
  (HasReturned /\ DispatchedTo(request) = "TEXT") =>
    \A k \in 1..Len(outcome.result.matches) :
      /\ outcome.result.matches[k].position + outcome.result.matches[k].length
           <= Len(request.input)
      /\ Substring(request.input, outcome.result.matches[k].position,
                   outcome.result.matches[k].position
                     + outcome.result.matches[k].length)
           = outcome.fx.subs[k].span

\* The string leaves of a tree in the order of a depth-first traversal:
\* the items of an array in their order, the values of an object in the
\* order of its entries.
RECURSIVE StringLeaves(_)
RECURSIVE LeavesFrom(_, _)
StringLeaves(tree) ==
  CASE tree.t = "str" -> <<tree.v>>
    [] tree.t = "arr" -> LeavesFrom(tree.v, 1)
    [] tree.t = "obj" -> LeavesFrom([k \in 1..Len(tree.v) |-> tree.v[k].val], 1)
    [] OTHER -> <<>>

LeavesFrom(values, k) ==
  IF k > Len(values) THEN <<>>
  ELSE StringLeaves(values[k]) \o LeavesFrom(values, k + 1)

\* The tree the parser of the call's format makes of its input.
ParsedInput(req) ==
  IF DispatchedTo(req) = "JSON" THEN JSONparse(req.input).v
  ELSE XMLparse(req.input).v

\* The matches of the leaves k.. of a walk, one list after the other.
RECURSIVE MatchesFrom(_, _)
MatchesFrom(leaves, k) ==
  IF k > Len(leaves) THEN <<>>
  ELSE leaves[k].matches \o MatchesFrom(leaves, k + 1)

\* redactText agrees with what redactTextSync returned for a leaf.
AsText(leaf, text) ==
  /\ text.status = "returned"
  /\ text.result.redacted = Plain(leaf.redacted)
  /\ text.result.matches = leaf.matches

\* The call returned the redaction of the tree its input parses to.
TreeReturned ==
  /\ HasReturned
  /\ DispatchedTo(request) \in {"JSON", "XML"}
  /\ Parses(request)

\* C28: in a call that returns the redaction of a parsed JSON or XML
\* document, the leaves scanned are the document's string leaves in
\* depth-first order; for each of them redactTextSync returned the redacted
\* text and the matches that redactText returns for that string with the
\* call's options without encryptionKey; and the matches of the result are
\* the leaves' lists one after the other in that order.
C28_LeafRedactionIsTextRedaction ==
  TreeReturned =>
    /\ [k \in 1..Len(outcome.fx.leaves) |-> outcome.fx.leaves[k].text]
         = StringLeaves(ParsedInput(request))
    /\ \A k \in 1..Len(outcome.fx.leaves) :
         AsText(outcome.fx.leaves[k],
                redactText(CatalogAt(request), outcome.fx.leaves[k].text,
                           [request.options EXCEPT !.encryptionKey = Absent],
                           "iv1"))
    /\ outcome.result.matches = MatchesFrom(outcome.fx.leaves, 1)

\* A JSON document was redacted of which one leaf holds matches of
\* patterns of two severities and a later leaf holds a match.
C28_Witness ==
  /\ TreeReturned
  /\ Len(outcome.fx.leaves) >= 3
  /\ Len(outcome.fx.leaves[1].matches) >= 2
  /\ outcome.fx.leaves[1].matches[1].severity
       # outcome.fx.leaves[1].matches[2].severity
  /\ outcome.fx.leaves[3].matches # <<>>

\* this.patterns of a fresh engine to which the patterns of the history
\* were added in their order.
FreshCatalog == PHI_PATTERNS \o added

\* C29: a call of redactData on an engine with a history of calls and of
\* added patterns ends as the same call ends on a fresh engine to which
\* the same patterns were added in the same order: same redacted text,
\* same matches in the same order.
C29_HistoryIndependent ==
  Done =>
    SameEnd(outcome,
            redactData(FreshCatalog, request.input, request.options,
                       "iv1", "iv1"))

\* A call returned a match of a pattern that was added after an earlier
\* call had sorted this.patterns, on an engine whose this.patterns is not
\* in the order of a fresh engine's.
C29_Witness ==
  /\ HasReturned
  /\ added # <<>>
  /\ request.catalog # Ids(FreshCatalog)
  /\ \E k \in 1..Len(outcome.fx.by) : outcome.fx.by[k] = added[Len(added)].id


\* The number of the matches of the pattern named name.
CountOf(matches, name) ==
  LET Is(m) == m.pattern = name
  IN  Len(SelectSeq(matches, Is))

\* The replacement styles a call can ask for: preserveFormat and
\* maskCharacter.
Styles ==
  { <<"false", Absent>>, <<"true", Absent>>, <<"undefined", Absent>>,
    <<"true", Some(<<"#">>)>>, <<"true", Some(<<"1">>)>> }

\* The call req with the replacement style changed and nothing else.
Restyled(req, style) ==
  Perform(req, CatalogAt(req),
          [req.options EXCEPT !.preserveFormat = style[1],
                              !.maskCharacter = style[2]],
          "iv1")

\* Two sequences of matches hold the same number of matches of every
\* pattern.
SameCounts(a, b) ==
  \A k \in 1..Len(Known) : CountOf(a, Known[k].name) = CountOf(b, Known[k].name)

\* C30: a call that returned records the same number of matches of every
\* pattern as the same call with any other preserveFormat and
\* maskCharacter.
C30_DetectionIgnoresStyle ==
  HasReturned =>
    \A style \in Styles :
      LET other == Restyled(request, style)
      IN  other.status = "returned" =>
            SameCounts(outcome.result.matches, other.result.matches)
====
